---- MODULE Spec2Model ----
(***************************************************************************)
(* Conversation persistence of the chat backend: the durable tier          *)
(* (services/conversation_service.py over the users/conversations tables), *)
(* the volatile tier (conversations_storage of api/app_databricks.py), the *)
(* /conversations endpoints that try the first and fall back to the second,*)
(* and the per-user limit of PostgreSQLAuthService.                        *)
(***************************************************************************)
EXTENDS Naturals, Integers, Sequences, FiniteSets, TLC

(***************************************************************************)
(* Bounds of the model.                                                    *)
(***************************************************************************)
\* The number of timestamps the clock hands out in one behaviour of the
\* endpoints: every operation that stores a timestamp reads datetime.now()
\* later than the one before it.
MaxTime == 2

\* The number of timestamps handed out in a behaviour that only creates
\* and lists.
MaxCreates == 3

\* max_conversations of _enforce_conversation_limit, 20 in the source, scaled.
MaxConversations == 2

\* The last instant of the database clock current_timestamp() reads.
MaxAuthTime == 2

(***************************************************************************)
(* Values.                                                                 *)
(***************************************************************************)
\* An email is a string, kept as its sequence of characters so that "equal"
\* and "is a prefix of" are different relations: EmailA is a proper prefix of
\* EmailB.  The empty sequence is None / "" (both falsy in `if not user_email`).
EmailA == <<"u">>
EmailB == <<"u", "v">>
Emails == {EmailA, EmailB}
NoEmail == <<>>

\* X-Forwarded-Access-Token values; "" is a missing header.  The identity
\* provider (WorkspaceClient.current_user.me) knows tokA and tokB and fails
\* on badtok.
NoToken == ""
Tokens == {"tokA", "tokB", "badtok"}

\* user ids (f"user_{uuid4().hex[:8]}") and conversation ids: the durable
\* service draws f"conv_{uuid4().hex[:8]}", the in-memory code draws
\* f"conv_{ms}_{random}", so the two tiers never share an id.
UserIds == {"user_1", "user_2"}
DurableIds == {"conv_d1", "conv_d2"}
VolatileIds == {"conv_1_v1", "conv_2_v2", "conv_3_v3"}
ConvIds == DurableIds \cup VolatileIds

\* ids of the Lakebase conversations table (uuid()::string), in the order they
\* are handed out.
LbIds == {"lb_1", "lb_2", "lb_3"}
LbIndex(id) == CASE id = "lb_1" -> 1 [] id = "lb_2" -> 2 [] OTHER -> 3

DefaultTitle == "New Conversation"
Titles == {"T1"}
MsgSeqs == {<<>>, <<"m1">>}

\* Optional values (None or a value) are sequences of length 0 or 1.
None == <<>>
Some(v) == <<v>>

\* conversation_data of a request: a dict whose keys are among title and
\* messages; a field holds None when the key is absent.
ConversationData ==
    [title : {None} \cup {Some(t) : t \in Titles},
     messages : {None, Some(<<"m1">>)}]
NoData == [title |-> None, messages |-> None]

\* dict.get(key, default)
GetOr(opt, default) == IF opt = None THEN default ELSE opt[1]

\* datetime.isoformat(): the timestamp as a string; strings of one format
\* compare as the instants they denote.
isoformat(t) == [iso |-> t]

VARIABLES
    now,                    \* the clock datetime.now() / func.now() reads
    db_users,               \* users table: rows [id, email], email unique
    db_convs,               \* conversations table: rows keyed by id
    conversations_storage,  \* app_databricks.conversations_storage, in insertion order
    users_storage,          \* app_databricks.users_storage: the emails registered
    warehouse_id,           \* LakebasePostgreSQLService.warehouse_id is set
    use_mock,               \* PostgreSQLAuthService.use_mock
    connection_tested,      \* PostgreSQLAuthService._connection_tested
    lb_convs,               \* the Lakebase conversations table
    endpoint_task,          \* the task type the workspace reports for SERVING_ENDPOINT
    endpoint_supported,     \* app_databricks.endpoint_supported, None until the module is loaded
    in_flight,              \* the PUT /conversations/{id} request of each client: not sent, sent, answered
    last                    \* the last request served and its response

appVars == <<db_users, db_convs, conversations_storage, users_storage>>
authVars == <<warehouse_id, use_mock, connection_tested, lb_convs>>
chatVars == <<endpoint_task, endpoint_supported>>
vars == <<now, appVars, authVars, chatVars, in_flight, last>>

\* What a chat request asked and got: the message, the endpoint's task type,
\* the outcome of the call, the text of the exception query_endpoint raised and
\* the content it returned.
NoChat == [message |-> <<>>, task |-> "", outcome |-> "none", r |-> 0, err |-> <<>>,
           content |-> [t |-> "none", v |-> <<>>]]

\* body: the dicts of the response (a list, or one dict), count: deleted_count,
\* dbFailed: a statement of the durable service raised while serving the request.
NoLast == [op |-> "none", email |-> NoEmail, id |-> "", status |-> 0,
           body |-> <<>>, count |-> 0, dbFailed |-> FALSE, data |-> NoData,
           uid |-> "", deleted |-> {}, chat |-> NoChat, calls |-> <<>>,
           volFailed |-> FALSE]

\* Two clients of one user (two tabs of the chat page), each with one update
\* to send.
Clients == {"c1", "c2"}
NotSent == [st |-> "idle", token |-> NoToken, header |-> NoEmail, id |-> "",
            messages |-> <<>>, rows |-> {}, attempt |-> 0, status |-> 0]

Init ==
    /\ now = 0
    /\ db_users = {}
    /\ db_convs = {}
    /\ conversations_storage = <<>>
    /\ users_storage = {}
    /\ warehouse_id = FALSE
    /\ use_mock = TRUE
    /\ connection_tested = FALSE
    /\ lb_convs = {}
    /\ endpoint_task = ""
    /\ endpoint_supported = None
    /\ in_flight = [c \in Clients |-> NotSent]
    /\ last = NoLast

\* datetime.now() / func.now() as the operation running now reads it.
Stamp == now + 1
ClockAdvances == now' = Stamp

\* The step ends no later than the instant `bound`.
Within(bound) == now' <= bound

(***************************************************************************)
(* Identity resolution of the /conversations endpoints.                    *)
(***************************************************************************)
get_user_email_from_token(user_token) ==
    CASE user_token = "tokA" -> EmailA
      [] user_token = "tokB" -> EmailB
      [] OTHER -> NoEmail

\* user_email = get_user_email_from_token(token) if token else header
ResolveEmail(user_token, header_email) ==
    IF user_token # NoToken THEN get_user_email_from_token(user_token)
    ELSE header_email

\* The requests' identity headers: (X-Forwarded-Access-Token, X-Forwarded-Email).
Identities == {<<"tokA", NoEmail>>, <<NoToken, EmailB>>, <<"badtok", EmailA>>}

(***************************************************************************)
(* Durable tier: services over the users and conversations tables.  Each   *)
(* service runs in one session; a statement that raises leaves the tables  *)
(* as they were and the service's except clause turns it into the          *)
(* service's failure value.  An operator returns the value and the tables. *)
(***************************************************************************)
UserByEmail(email) == {u \in db_users : u.email = email}
ConvById(convs, id) == {c \in convs : c.id = id}

\* Conversation.to_dict
to_dict(row) ==
    [id |-> row.id, title |-> row.title, messages |-> row.messages,
     created_at |-> isoformat(row.created_at),
     updated_at |-> isoformat(row.updated_at)]

\* The sequences a query "ORDER BY updated_at DESC" may return for the rows S:
\* the order of rows with equal updated_at is the database's choice.
OrderByUpdatedDesc(S) ==
    {q \in [1..Cardinality(S) -> S] :
        /\ \A i, j \in 1..Cardinality(S) : i # j => q[i] # q[j]
        /\ \A i, j \in 1..Cardinality(S) : i < j => q[i].updated_at >= q[j].updated_at}

\* services.user_service.get_or_create_user
get_or_create_user(email, uid, dbFails) ==
    IF dbFails THEN [ret |-> None, users |-> db_users]
    ELSE IF UserByEmail(email) # {}
         THEN [ret |-> Some(CHOOSE u \in UserByEmail(email) : TRUE), users |-> db_users]
         ELSE [ret |-> Some([id |-> uid, email |-> email]),
               users |-> db_users \cup {[id |-> uid, email |-> email]}]

\* services.conversation_service.get_user_conversations; rows is the order the
\* query returned.
get_user_conversations(user_email, rows, dbFails) ==
    IF dbFails THEN <<>>                                    \* except: return []
    ELSE IF UserByEmail(user_email) = {} THEN <<>>
    ELSE [i \in 1..Len(rows) |-> to_dict(rows[i])]

\* The rows of the user's conversations, as the query of get_user_conversations
\* selects them.
UserRows(user_email) ==
    {c \in db_convs : \E u \in UserByEmail(user_email) : c.user_id = u.id}

\* services.conversation_service.create_conversation(user_email, title, messages)
create_conversation_service(user_email, title, messages, uid, cid, userFails, dbFails) ==
    LET got == get_or_create_user(user_email, uid, userFails) IN
    IF got.ret = None THEN [ret |-> None, users |-> got.users, convs |-> db_convs]
    ELSE IF dbFails THEN [ret |-> None, users |-> got.users, convs |-> db_convs]
    ELSE LET row == [id |-> cid, title |-> title, user_id |-> got.ret[1].id,
                     messages |-> messages, created_at |-> Stamp, updated_at |-> Stamp]
         IN [ret |-> Some(to_dict(row)), users |-> got.users,
             convs |-> db_convs \cup {row}]

\* The selection without its condition on user_id.
OwnedRow_AnyOwner(conversation_id, user_email) ==
    {c \in db_convs : c.id = conversation_id}

\* The conversation `conversation_id` of the user `user_email`, as the services
\* select it: Conversation.id == id AND Conversation.user_id == user.id.
OwnedRow(conversation_id, user_email) ==
    {c \in db_convs : /\ c.id = conversation_id
                      /\ \E u \in UserByEmail(user_email) : c.user_id = u.id}

\* The update that leaves updated_at alone when only the title changes.
update_conversation_service_StaleTitle(conversation_id, user_email, title, messages, dbFails) ==
    IF dbFails THEN [ret |-> None, convs |-> db_convs]
    ELSE IF UserByEmail(user_email) = {} THEN [ret |-> None, convs |-> db_convs]
    ELSE IF OwnedRow(conversation_id, user_email) = {} THEN [ret |-> None, convs |-> db_convs]
    ELSE LET old == CHOOSE c \in OwnedRow(conversation_id, user_email) : TRUE
             new == [old EXCEPT !.title = GetOr(title, old.title),
                                !.messages = GetOr(messages, old.messages),
                                !.updated_at = IF messages = None THEN @ ELSE Stamp]
         IN [ret |-> Some(to_dict(new)), convs |-> (db_convs \ {old}) \cup {new}]

\* services.conversation_service.update_conversation
update_conversation_service(conversation_id, user_email, title, messages, dbFails) ==
    IF dbFails THEN [ret |-> None, convs |-> db_convs]
    ELSE IF UserByEmail(user_email) = {} THEN [ret |-> None, convs |-> db_convs]
    ELSE IF OwnedRow(conversation_id, user_email) = {} THEN [ret |-> None, convs |-> db_convs]
    ELSE LET old == CHOOSE c \in OwnedRow(conversation_id, user_email) : TRUE
             new == [old EXCEPT !.title = GetOr(title, old.title),
                                !.messages = GetOr(messages, old.messages),
                                !.updated_at = Stamp]
         IN [ret |-> Some(to_dict(new)), convs |-> (db_convs \ {old}) \cup {new}]

\* services.conversation_service.delete_conversation
delete_conversation_service(conversation_id, user_email, dbFails) ==
    IF dbFails THEN [ret |-> FALSE, convs |-> db_convs]
    ELSE IF UserByEmail(user_email) = {} THEN [ret |-> FALSE, convs |-> db_convs]
    ELSE IF OwnedRow(conversation_id, user_email) = {} THEN [ret |-> FALSE, convs |-> db_convs]
    ELSE [ret |-> TRUE, convs |-> db_convs \ OwnedRow(conversation_id, user_email)]

\* services.conversation_service.cleanup_empty_conversations
cleanup_empty_conversations(user_email, dbFails) ==
    IF dbFails THEN [ret |-> 0, convs |-> db_convs]
    ELSE IF UserByEmail(user_email) = {} THEN [ret |-> 0, convs |-> db_convs]
    ELSE LET empty_conversations ==
                 {c \in UserRows(user_email) : Len(c.messages) = 0}
         IN [ret |-> Cardinality(empty_conversations),
             convs |-> db_convs \ empty_conversations]

(***************************************************************************)
(* Volatile tier: the dict conversations_storage, kept as the sequence of  *)
(* its values in insertion order.                                          *)
(***************************************************************************)
StorageIds(storage) == {storage[i].id : i \in 1..Len(storage)}
StorageGet(storage, id) == SelectSeq(storage, LAMBDA c : c.id = id)

\* storage[conv.id] = conv: a new key is appended, an existing key keeps its place.
StoragePut(storage, conv) ==
    IF conv.id \in StorageIds(storage)
    THEN [i \in 1..Len(storage) |-> IF storage[i].id = conv.id THEN conv ELSE storage[i]]
    ELSE Append(storage, conv)

\* del storage[id]
StorageDel(storage, id) == SelectSeq(storage, LAMBDA c : c.id # id)

\* list.sort(key=updated_at, reverse=True): a stable sort, equal keys keep
\* their order.
RECURSIVE InsertDesc(_, _)
InsertDesc(x, sorted) ==
    IF sorted = <<>> THEN <<x>>
    ELSE IF Head(sorted).updated_at.iso > x.updated_at.iso
         THEN <<Head(sorted)>> \o InsertDesc(x, Tail(sorted))
         ELSE <<x>> \o sorted
RECURSIVE SortUpdatedDesc(_)
SortUpdatedDesc(list) ==
    IF list = <<>> THEN <<>>
    ELSE InsertDesc(Head(list), SortUpdatedDesc(Tail(list)))

\* The in-memory record of a new conversation (mock_create_conversation and the
\* fallback of create_conversation build the same dict).
NewVolatile(cid, user_email, title, messages) ==
    [id |-> cid, title |-> title, user_email |-> user_email, messages |-> messages,
     created_at |-> isoformat(Stamp), updated_at |-> isoformat(Stamp)]

\* A partial match in place of !=: the caller whose email the owner's email
\* starts with passes for the owner.
OwnerDiffers_PrefixMatch(conversation, user_email) ==
    ~(/\ Len(user_email) <= Len(conversation.user_email)
      /\ SubSeq(conversation.user_email, 1, Len(user_email)) = user_email)

\* conversation.get('user_email') != user_email
OwnerDiffers(conversation, user_email) == conversation.user_email # user_email

\* The selection without the sort.
fallback_list_Unsorted(storage, user_email) ==
    SelectSeq(storage, LAMBDA c : c.user_email = user_email)

\* The fallback of get_conversations (and mock_get_user_conversations).
fallback_list(storage, user_email) ==
    SortUpdatedDesc(SelectSeq(storage, LAMBDA c : c.user_email = user_email))

\* The update without the check of the owner, the caller recorded as the owner.
fallback_update_Reowned(storage, conversation_id, user_email, data) ==
    LET found == StorageGet(storage, conversation_id) IN
    IF found = <<>>
    THEN [ret |-> None, storage |-> storage]
    ELSE LET new == [found[1] EXCEPT !.title = GetOr(data.title, @),
                                     !.messages = GetOr(data.messages, @),
                                     !.user_email = user_email,
                                     !.updated_at = isoformat(Stamp)]
         IN [ret |-> Some(new), storage |-> StoragePut(storage, new)]

\* The fallback of update_conversation: None when the id is unknown or owned
\* by another email.
fallback_update(storage, conversation_id, user_email, data) ==
    LET found == StorageGet(storage, conversation_id) IN
    IF found = <<>> \/ OwnerDiffers(found[1], user_email)
    THEN [ret |-> None, storage |-> storage]
    ELSE LET new == [found[1] EXCEPT !.title = GetOr(data.title, @),
                                     !.messages = GetOr(data.messages, @),
                                     !.updated_at = isoformat(Stamp)]
         IN [ret |-> Some(new), storage |-> StoragePut(storage, new)]

\* The fallback of delete_conversation.
fallback_delete(storage, conversation_id, user_email) ==
    LET found == StorageGet(storage, conversation_id) IN
    IF found = <<>> \/ OwnerDiffers(found[1], user_email)
    THEN [ret |-> FALSE, storage |-> storage]
    ELSE [ret |-> TRUE, storage |-> StorageDel(storage, conversation_id)]

\* The fallback of cleanup_conversations.
fallback_cleanup(storage, user_email) ==
    LET empty_conversation_ids ==
            {storage[i].id : i \in {j \in 1..Len(storage) :
                /\ storage[j].user_email = user_email
                /\ Len(storage[j].messages) = 0}}
    IN [ret |-> Cardinality(empty_conversation_ids),
        storage |-> SelectSeq(storage, LAMBDA c : c.id \notin empty_conversation_ids)]

(***************************************************************************)
(* The /conversations endpoints of api/app_databricks.py.                  *)
(***************************************************************************)
Response(op, email, id, status, body, count, dbFailed, data) ==
    [op |-> op, email |-> email, id |-> id, status |-> status, body |-> body,
     count |-> count, dbFailed |-> dbFailed, data |-> data, uid |-> "", deleted |-> {},
     chat |-> NoChat, calls |-> <<>>, volFailed |-> FALSE]

\* The response of a request, with the calls the handler made to the stores
\* and to the serving endpoint while serving it, in order.
Traced(response, calls) == [response EXCEPT !.calls = calls]

\* A service without its try/except: a statement that fails raises to the
\* caller.
ServiceRaises_Propagates(dbFails) == dbFails

\* Whether a service of conversation_service.py lets an exception out: each
\* wraps its whole body in try/except and returns its failure value instead.
ServiceRaises(dbFails) == FALSE

\* The keyword arguments create_conversation passes to the service, and the
\* parameters the service declares: a keyword that is no parameter is a
\* TypeError at the call.
CreateCallKeywords == {"user_email", "title", "messages", "conversation_id"}
CreateServiceParameters == {"user_email", "title", "messages"}
CreateCallRaises == ~(CreateCallKeywords \subseteq CreateServiceParameters)

\* The ids the generators draw: values not in use (the ids are opaque).
FreshDurableIds == DurableIds \ {c.id : c \in db_convs}
FreshVolatileIds == VolatileIds \ StorageIds(conversations_storage)
\* The ids a request names: the ids in use and one id that no conversation has.
UnknownId == "conv_0"
RequestIds == {c.id : c \in db_convs} \cup StorageIds(conversations_storage)
                  \cup {UnknownId}

\* A request without identity is answered before its path and body are read:
\* one such request stands for all.
Anonymous(ident, id, data, dbFails) ==
    ResolveEmail(ident[1], ident[2]) = NoEmail
        => (id = UnknownId /\ data = NoData /\ ~dbFails)

\* Users are never deleted, so an email gets one id for good.
NewUserId(email) == IF email = EmailA THEN "user_1" ELSE "user_2"
NewDurableId == IF FreshDurableIds = {} THEN "conv_0" ELSE CHOOSE c \in FreshDurableIds : TRUE
NewVolatileId == IF FreshVolatileIds = {} THEN "conv_0" ELSE CHOOSE c \in FreshVolatileIds : TRUE

\* The calls of get_conversations: when get_user_conversations raises and the
\* engine is None, the handler initializes the engine and calls it again
\* before it falls back.
get_conversations_calls(dbFails, engine_is_none) ==
    IF ~ServiceRaises(dbFails) THEN <<"durable.list">>
    ELSE IF engine_is_none THEN <<"durable.list", "durable.list", "volatile.list">>
    ELSE <<"durable.list", "volatile.list">>

\* get_conversations without identity, answered as the other handlers answer:
\* HTTPException(400).
ListWithoutIdentity_Rejected == Response("list", NoEmail, "", 400, <<>>, 0, FALSE, NoData)

\* get_conversations without identity: return {"conversations": []}
ListWithoutIdentity == Response("list", NoEmail, "", 200, <<>>, 0, FALSE, NoData)

\* GET /conversations
get_conversations(user_token, header_email, dbFails) ==
    LET user_email == ResolveEmail(user_token, header_email) IN
    /\ UNCHANGED <<now, db_users, db_convs, conversations_storage, users_storage, authVars, chatVars>>
    /\ IF user_email = NoEmail
       THEN last' = ListWithoutIdentity
       ELSE \E rows \in OrderByUpdatedDesc(UserRows(user_email)),
                  engine_is_none \in BOOLEAN :
              LET conversations ==
                      IF ServiceRaises(dbFails)
                      THEN fallback_list(conversations_storage, user_email)
                      ELSE get_user_conversations(user_email, rows, dbFails)
              IN last' = Traced(Response("list", user_email, "", 200, conversations, 0,
                                         dbFails, NoData),
                                get_conversations_calls(dbFails, engine_is_none))

\* POST /conversations
create_conversation(user_token, header_email, conversation_data, userFails, dbFails) ==
    LET user_email == ResolveEmail(user_token, header_email) IN
    IF user_email = NoEmail
    THEN /\ last' = Response("create", NoEmail, "", 400, <<>>, 0, FALSE, conversation_data)
         /\ UNCHANGED <<now, db_users, db_convs, conversations_storage, users_storage, authVars, chatVars>>
    ELSE LET user == get_or_create_user(user_email, NewUserId(user_email), userFails)
             title == GetOr(conversation_data.title, DefaultTitle)
             messages == GetOr(conversation_data.messages, <<>>)
         IN IF user.ret # None /\ ~CreateCallRaises
            THEN \* the durable service serves the request
                 \E cid \in FreshDurableIds \cap {NewDurableId} :
                   LET created == create_conversation_service(user_email, title, messages,
                                      NewUserId(user_email), cid, userFails, dbFails) IN
                   /\ created.ret # None
                   /\ ClockAdvances
                   /\ db_users' = created.users
                   /\ db_convs' = created.convs
                   /\ UNCHANGED <<conversations_storage, users_storage, authVars, chatVars>>
                   /\ last' = Traced(Response("create", user_email, cid, 200, created.ret,
                                              0, userFails \/ dbFails, conversation_data),
                                     <<"durable.get_or_create_user",
                                       "durable.get_or_create_user", "durable.create">>)
            ELSE \* except Exception as db_error: fall back to in-memory storage
                 \E vid \in {NewVolatileId} \cap FreshVolatileIds :
                   LET conversation == NewVolatile(vid, user_email, title, messages) IN
                   /\ ClockAdvances
                   /\ db_users' = user.users
                   /\ UNCHANGED <<db_convs, authVars, chatVars>>
                   /\ users_storage' = users_storage \cup {user_email}
                   /\ conversations_storage' = StoragePut(conversations_storage, conversation)
                   /\ last' = Traced(Response("create", user_email, vid, 200,
                                              <<conversation>>, 0, userFails,
                                              conversation_data),
                                     <<"durable.get_or_create_user", "volatile.create">>)

\* The calls of update_conversation when the service returned None: the
\* handler lists the user's conversations for its log, raises 404 and its own
\* except clause goes to the in-memory storage.
update_fallback_calls == <<"durable.update", "durable.list", "volatile.update">>

\* PUT /conversations/{conversation_id}
update_conversation(user_token, header_email, conversation_id, conversation_data, dbFails) ==
    LET user_email == ResolveEmail(user_token, header_email) IN
    /\ UNCHANGED <<db_users, users_storage, authVars, chatVars>>
    /\ IF user_email = NoEmail
       THEN /\ last' = Response("update", NoEmail, conversation_id, 400, <<>>, 0, FALSE, NoData)
            /\ UNCHANGED <<now, db_convs, conversations_storage>>
       ELSE LET updated == update_conversation_service(conversation_id, user_email,
                               conversation_data.title, conversation_data.messages, dbFails)
                fallback == fallback_update(conversations_storage, conversation_id,
                                            user_email, conversation_data)
            IN IF updated.ret # None
               THEN /\ ClockAdvances
                    /\ db_convs' = updated.convs
                    /\ UNCHANGED conversations_storage
                    /\ last' = Traced(Response("update", user_email, conversation_id, 200,
                                               updated.ret, 0, dbFails, NoData),
                                      <<"durable.update">>)
               ELSE \* the HTTPException(404) raised in the try block is caught by its
                    \* own except Exception: fall back to in-memory storage
                    IF fallback.ret = None
                    THEN /\ UNCHANGED <<now, db_convs, conversations_storage>>
                         /\ last' = Traced(Response("update", user_email, conversation_id,
                                                    404, <<>>, 0, dbFails, NoData),
                                           update_fallback_calls)
                    ELSE /\ ClockAdvances
                         /\ UNCHANGED db_convs
                         /\ conversations_storage' = fallback.storage
                         /\ last' = Traced(Response("update", user_email, conversation_id,
                                                    200, fallback.ret, 0, dbFails, NoData),
                                           update_fallback_calls)

\* DELETE /conversations/{conversation_id}
delete_conversation(user_token, header_email, conversation_id, dbFails) ==
    LET user_email == ResolveEmail(user_token, header_email) IN
    /\ UNCHANGED <<now, db_users, users_storage, authVars, chatVars, in_flight>>
    /\ IF user_email = NoEmail
       THEN /\ last' = Response("delete", NoEmail, conversation_id, 400, <<>>, 0, FALSE, NoData)
            /\ UNCHANGED <<db_convs, conversations_storage>>
       ELSE LET deleted == delete_conversation_service(conversation_id, user_email, dbFails)
                fallback == fallback_delete(conversations_storage, conversation_id, user_email)
            IN IF deleted.ret
               THEN /\ db_convs' = deleted.convs
                    /\ UNCHANGED conversations_storage
                    /\ last' = Traced(Response("delete", user_email, conversation_id, 200,
                                               <<>>, 0, dbFails, NoData),
                                      <<"durable.delete">>)
               ELSE \* the HTTPException(404) raised in the try block is caught by its
                    \* own except Exception: fall back to in-memory storage
                    /\ UNCHANGED db_convs
                    /\ conversations_storage' = fallback.storage
                    /\ last' = Traced(Response("delete", user_email, conversation_id,
                                               IF fallback.ret THEN 200 ELSE 404, <<>>,
                                               0, dbFails, NoData),
                                      <<"durable.delete", "volatile.delete">>)

\* POST /conversations/cleanup
cleanup_conversations(user_token, header_email, dbFails) ==
    LET user_email == ResolveEmail(user_token, header_email) IN
    /\ UNCHANGED <<now, db_users, users_storage, authVars, chatVars, in_flight>>
    /\ IF user_email = NoEmail
       THEN /\ last' = Response("cleanup", NoEmail, "", 400, <<>>, 0, FALSE, NoData)
            /\ UNCHANGED <<db_convs, conversations_storage>>
       ELSE LET cleaned == cleanup_empty_conversations(user_email, dbFails)
                fallback == fallback_cleanup(conversations_storage, user_email)
            IN IF ServiceRaises(dbFails)
               THEN /\ UNCHANGED db_convs
                    /\ conversations_storage' = fallback.storage
                    /\ last' = Traced(Response("cleanup", user_email, "", 200, <<>>,
                                               fallback.ret, dbFails, NoData),
                                      <<"durable.cleanup", "volatile.cleanup">>)
               ELSE /\ db_convs' = cleaned.convs
                    /\ UNCHANGED conversations_storage
                    /\ last' = Traced(Response("cleanup", user_email, "", 200, <<>>,
                                               cleaned.ret, dbFails, NoData),
                                      <<"durable.cleanup">>)

\* The status of the outer `except Exception` clause of each handler:
\* get_conversations returns {"conversations": []} and cleanup_conversations
\* returns {"message": "Failed to cleanup conversations", "deleted_count": 0},
\* both as ordinary responses; the others raise HTTPException(500).
OuterExceptStatus(op) == IF op \in {"list", "cleanup"} THEN 200 ELSE 500

\* A request during which the in-memory code of the handler raises (a
\* MemoryError, say) before it writes: the handler has come to its fallback,
\* and its outer except clause answers.
in_memory_raises(op, user_token, header_email, conversation_id, dbFails) ==
    LET user_email == ResolveEmail(user_token, header_email)
        user == get_or_create_user(user_email, NewUserId(user_email), dbFails)
    IN /\ user_email # NoEmail
       /\ CASE op = "create" -> TRUE
            [] op = "update" ->
                 update_conversation_service(conversation_id, user_email, None, None,
                                             dbFails).ret = None
            [] op = "delete" ->
                 ~delete_conversation_service(conversation_id, user_email, dbFails).ret
            [] OTHER -> ServiceRaises(dbFails)
       /\ db_users' = IF op = "create" THEN user.users ELSE db_users
       /\ last' = [Traced(Response(op, user_email, conversation_id, OuterExceptStatus(op),
                                   <<>>, 0, dbFails, NoData),
                          CASE op = "create" -> <<"durable.get_or_create_user",
                                                  "volatile.create">>
                            [] op = "update" -> update_fallback_calls
                            [] op = "delete" -> <<"durable.delete", "volatile.delete">>
                            [] op = "list" -> <<"durable.list", "volatile.list">>
                            [] OTHER -> <<"durable.cleanup", "volatile.cleanup">>)
                      EXCEPT !.volFailed = TRUE]
       /\ UNCHANGED <<now, db_convs, conversations_storage, users_storage, authVars,
                      chatVars, in_flight>>

\* The durable service's create, called directly (as /debug/conversations and
\* /debug/database do).
CreateService(user_email, title, messages, cid, userFails, dbFails) ==
    LET created == create_conversation_service(user_email, title, messages,
                                               NewUserId(user_email), cid, userFails, dbFails) IN
    /\ cid \in FreshDurableIds
    /\ IF created.ret = None THEN UNCHANGED now ELSE ClockAdvances
    /\ db_users' = created.users
    /\ db_convs' = created.convs
    /\ last' = Response("svc_create", user_email, IF created.ret = None THEN "" ELSE cid,
                        0, created.ret, 0, userFails \/ dbFails,
                        [title |-> Some(title), messages |-> Some(messages)])
    /\ UNCHANGED <<conversations_storage, users_storage, authVars, chatVars, in_flight>>

(***************************************************************************)
(* The two store implementations called directly: the services of          *)
(* conversation_service.py and the mock_* functions of app_databricks.py.  *)
(***************************************************************************)
\* services.conversation_service.get_user_conversations, called directly
ListService(user_email, dbFails) ==
    /\ \E rows \in OrderByUpdatedDesc(UserRows(user_email)) :
         last' = Response("svc_list", user_email, "", 0,
                          get_user_conversations(user_email, rows, dbFails),
                          0, dbFails, NoData)
    /\ UNCHANGED <<now, appVars, authVars, chatVars, in_flight>>

\* services.conversation_service.update_conversation, called directly
UpdateService(conversation_id, user_email, title, messages, dbFails) ==
    LET updated == update_conversation_service(conversation_id, user_email,
                                               title, messages, dbFails) IN
    /\ IF updated.ret = None THEN UNCHANGED now ELSE ClockAdvances
    /\ db_convs' = updated.convs
    /\ last' = Response("svc_update", user_email, conversation_id, 0, updated.ret,
                        0, dbFails, [title |-> title, messages |-> messages])
    /\ UNCHANGED <<db_users, conversations_storage, users_storage, authVars, chatVars, in_flight>>

\* services.conversation_service.delete_conversation, called directly
DeleteService(conversation_id, user_email, dbFails) ==
    LET deleted == delete_conversation_service(conversation_id, user_email, dbFails) IN
    /\ db_convs' = deleted.convs
    /\ last' = Response("svc_delete", user_email, conversation_id,
                        IF deleted.ret THEN 200 ELSE 404, <<>>, 0, dbFails, NoData)
    /\ UNCHANGED <<now, db_users, conversations_storage, users_storage, authVars, chatVars, in_flight>>

\* services.conversation_service.cleanup_empty_conversations, called directly
CleanupService(user_email, dbFails) ==
    LET cleaned == cleanup_empty_conversations(user_email, dbFails) IN
    /\ db_convs' = cleaned.convs
    /\ last' = Response("svc_cleanup", user_email, "", 0, <<>>, cleaned.ret,
                        dbFails, NoData)
    /\ UNCHANGED <<now, db_users, conversations_storage, users_storage, authVars, chatVars, in_flight>>

\* app_databricks.mock_create_conversation; messages is None when omitted
mock_create_conversation(user_email, title, messages) ==
    LET conversation == NewVolatile(NewVolatileId, user_email, title,
                                    GetOr(messages, <<>>)) IN
    /\ NewVolatileId \in FreshVolatileIds
    /\ ClockAdvances
    /\ conversations_storage' = StoragePut(conversations_storage, conversation)
    /\ last' = Response("mock_create", user_email, conversation.id, 0,
                        <<conversation>>, 0, FALSE,
                        [title |-> Some(title), messages |-> messages])
    /\ UNCHANGED <<db_users, db_convs, users_storage, authVars, chatVars, in_flight>>

\* app_databricks.mock_update_conversation
mock_update_conversation(conversation_id, user_email, title, messages) ==
    LET updated == fallback_update(conversations_storage, conversation_id, user_email,
                                   [title |-> title, messages |-> messages]) IN
    /\ IF updated.ret = None THEN UNCHANGED now ELSE ClockAdvances
    /\ conversations_storage' = updated.storage
    /\ last' = Response("mock_update", user_email, conversation_id, 0, updated.ret,
                        0, FALSE, [title |-> title, messages |-> messages])
    /\ UNCHANGED <<db_users, db_convs, users_storage, authVars, chatVars, in_flight>>

\* app_databricks.mock_get_user_conversations
mock_get_user_conversations(user_email) ==
    /\ last' = Response("mock_list", user_email, "", 0,
                        fallback_list(conversations_storage, user_email),
                        0, FALSE, NoData)
    /\ UNCHANGED <<now, appVars, authVars, chatVars, in_flight>>

\* app_databricks.mock_delete_conversation
mock_delete_conversation(conversation_id, user_email) ==
    LET deleted == fallback_delete(conversations_storage, conversation_id, user_email) IN
    /\ conversations_storage' = deleted.storage
    /\ last' = Response("mock_delete", user_email, conversation_id,
                        IF deleted.ret THEN 200 ELSE 404, <<>>, 0, FALSE, NoData)
    /\ UNCHANGED <<now, db_users, db_convs, users_storage, authVars, chatVars, in_flight>>

\* app_databricks.mock_cleanup_empty_conversations
mock_cleanup_empty_conversations(user_email) ==
    LET cleaned == fallback_cleanup(conversations_storage, user_email) IN
    /\ conversations_storage' = cleaned.storage
    /\ last' = Response("mock_cleanup", user_email, "", 0, <<>>, cleaned.ret,
                        FALSE, NoData)
    /\ UNCHANGED <<now, db_users, db_convs, users_storage, authVars, chatVars, in_flight>>

(***************************************************************************)
(* PostgreSQLAuthService over LakebasePostgreSQLService.  _execute_sql     *)
(* never raises: a statement that fails returns {"success": False}.  One   *)
(* operation is served under a failure mode: the class of statements that  *)
(* fail while it runs.                                                     *)
(***************************************************************************)
FailureModes == {"none", "select", "delete", "write"}

\* LakebasePostgreSQLService._execute_sql: success of a statement of `class`
SqlOk(class, fails) == warehouse_id /\ fails # class

\* LakebasePostgreSQLService.initialize: a running warehouse is found, or not
initialize(found) ==
    /\ warehouse_id' = (warehouse_id \/ found)
    /\ last' = [Response("lb_initialize", NoEmail, "", IF found THEN 200 ELSE 500,
                         <<>>, 0, ~found, NoData) EXCEPT !.uid = ""]
    /\ UNCHANGED <<now, appVars, chatVars, in_flight, use_mock, connection_tested, lb_convs>>

\* PostgreSQLAuthService._ensure_connection: use_mock after the call
EnsuredMock(fails) ==
    IF connection_tested THEN use_mock ELSE ~SqlOk("select", fails)

\* LakebasePostgreSQLService.get_user_conversations: the rows of the user
LbUserRows(table, uid) == {c \in table : c.uid = uid}

\* The sort keyed on created_at alone.
SortKey_CreatedAt(x) == x.created_at

\* key=lambda x: x['updated_at'] if x['updated_at'] else x['created_at']; the
\* table's updated_at is never null.  list.sort is stable and ascending.
SortKey(x) == x.updated_at
RECURSIVE InsertAsc(_, _)
InsertAsc(x, sorted) ==
    IF sorted = <<>> THEN <<x>>
    ELSE IF SortKey(Head(sorted)) <= SortKey(x)
         THEN <<Head(sorted)>> \o InsertAsc(x, Tail(sorted))
         ELSE <<x>> \o sorted
RECURSIVE SortOldestFirst(_)
SortOldestFirst(list) ==
    IF list = <<>> THEN <<>>
    ELSE InsertAsc(list[Len(list)], SortOldestFirst(SubSeq(list, 1, Len(list) - 1)))

\* conversations[:len(conversations) - max_conversations + 1]
conversations_to_delete(conversations, max_conversations) ==
    IF Len(conversations) >= max_conversations
    THEN SubSeq(SortOldestFirst(conversations), 1,
                Len(conversations) - max_conversations + 1)
    ELSE <<>>

\* PostgreSQLAuthService._enforce_conversation_limit; `listed` is what the
\* query of get_user_conversations returned.  The result: the rows the
\* method asked to delete, and the table after it.
_enforce_conversation_limit(table, listed, max_conversations, fails) ==
    LET conversations == IF SqlOk("select", fails) THEN listed ELSE <<>>
        doomed == conversations_to_delete(conversations, max_conversations)
        doomedRows == {doomed[i] : i \in 1..Len(doomed)}
    IN [asked |-> doomedRows,
        table |-> IF SqlOk("delete", fails) THEN table \ doomedRows ELSE table]

AuthResponse(op, uid, id, status, fails, deleted) ==
    [Response(op, NoEmail, id, status, <<>>, 0, fails # "none", NoData)
        EXCEPT !.uid = uid, !.deleted = deleted]

\* uuid(): an id no row of the table holds when the INSERT runs; one that no
\* row held when the operation began, while there is one.
FreshLbIds(table) == LbIds \ {c.id : c \in table}
FirstLbId(ids) == CHOOSE id \in ids : \A other \in ids : LbIndex(id) <= LbIndex(other)
NewLbId(before, after) ==
    IF FreshLbIds(before) # {} THEN FirstLbId(FreshLbIds(before))
    ELSE FirstLbId(FreshLbIds(after))

\* PostgreSQLAuthService.create_conversation; t is current_timestamp()
auth_create_conversation(uid, title, t, fails) ==
    /\ connection_tested' = TRUE
    /\ use_mock' = EnsuredMock(fails)
    /\ UNCHANGED <<appVars, chatVars, in_flight, warehouse_id>>
    /\ IF EnsuredMock(fails)
       THEN /\ UNCHANGED <<now, lb_convs>>
            /\ last' = AuthResponse("auth_create", uid, "mock_conv", 200, fails, {})
       ELSE \E listed \in OrderByUpdatedDesc(LbUserRows(lb_convs, uid)) :
              LET enforced == _enforce_conversation_limit(lb_convs, listed,
                                                          MaxConversations, fails)
              IN IF SqlOk("write", fails)
                 THEN /\ FreshLbIds(enforced.table) # {}
                      /\ now' = t
                      /\ lb_convs' = enforced.table \cup
                             {[id |-> NewLbId(lb_convs, enforced.table), uid |-> uid,
                               title |-> title, created_at |-> t, updated_at |-> t]}
                      /\ last' = AuthResponse("auth_create", uid,
                                              NewLbId(lb_convs, enforced.table), 200,
                                              fails, enforced.asked)
                 ELSE \* db_service.create_conversation raises
                      /\ UNCHANGED now
                      /\ lb_convs' = enforced.table
                      /\ last' = AuthResponse("auth_create", uid, "", 500, fails,
                                              enforced.asked)

\* PostgreSQLAuthService.update_conversation with messages=None
auth_update_conversation(conversation_id, title, t, fails) ==
    /\ UNCHANGED <<appVars, chatVars, in_flight, warehouse_id, use_mock, connection_tested>>
    /\ IF use_mock
       THEN /\ UNCHANGED <<now, lb_convs>>
            /\ last' = AuthResponse("auth_update", "", conversation_id, 200, fails, {})
       ELSE LET updated ==
                    IF SqlOk("write", fails)
                    THEN {IF c.id = conversation_id
                          THEN [c EXCEPT !.title = GetOr(title, @), !.updated_at = t]
                          ELSE c : c \in lb_convs}
                    ELSE lb_convs
                \* _get_conversation_by_id
                conversation ==
                    IF SqlOk("select", fails)
                    THEN {c \in updated : c.id = conversation_id}
                    ELSE {}
            IN /\ now' = IF updated = lb_convs THEN now ELSE t
               /\ IF conversation = {}
                  THEN /\ lb_convs' = updated
                       /\ last' = AuthResponse("auth_update", "", conversation_id, 200,
                                               fails, {})
                  ELSE LET uid == (CHOOSE c \in conversation : TRUE).uid IN
                       \E listed \in OrderByUpdatedDesc(LbUserRows(updated, uid)) :
                         LET enforced == _enforce_conversation_limit(updated, listed,
                                             MaxConversations, fails)
                         IN /\ lb_convs' = enforced.table
                            /\ last' = AuthResponse("auth_update", uid, conversation_id,
                                                    200, fails, enforced.asked)

\* PostgreSQLAuthService.delete_conversation
auth_delete_conversation(conversation_id, fails) ==
    /\ UNCHANGED <<now, appVars, chatVars, in_flight, warehouse_id, use_mock, connection_tested>>
    /\ lb_convs' = IF ~use_mock /\ SqlOk("delete", fails)
                   THEN {c \in lb_convs : c.id # conversation_id}
                   ELSE lb_convs
    /\ last' = AuthResponse("auth_delete", "", conversation_id, 200, fails, {})

(***************************************************************************)
(* Text.  A string is the sequence of its lexemes: a word, a digit, or one *)
(* character of punctuation or white space.  The patterns of               *)
(* model_serving_utils.py are read at that grain.                          *)
(***************************************************************************)
WhiteSpace == {" ", "\n"}
Digits == {"1", "2"}
Bullet == "(bullet)"
\* The characters that are neither letters, digits nor "-".
NonIdChars == WhiteSpace \cup {"[", "]", "^", ".", ":", ")", "(", "'", ",", "{", "}",
                               "=", Bullet}

Drop(s, n) == SubSeq(s, n + 1, Len(s))

\* The length of the longest run of lexemes of s, from position i on, that
\* are in S (member = TRUE) or not in S (member = FALSE).
Run(s, i, S, member) ==
    CHOOSE k \in 0..(Len(s) - i + 1) :
        /\ \A j \in i..(i + k - 1) : (s[j] \in S) = member
        /\ i + k <= Len(s) => (s[i + k] \in S) # member

\* The length of the longest run of white space s ends with.
TrailingWhiteSpace(s) ==
    CHOOSE k \in 0..Len(s) :
        /\ \A j \in (Len(s) - k + 1)..Len(s) : s[j] \in WhiteSpace
        /\ k < Len(s) => s[Len(s) - k] \notin WhiteSpace

\* str.strip()
strip(s) ==
    LET lead == Run(s, 1, WhiteSpace, TRUE) IN
    IF lead = Len(s) THEN <<>>
    ELSE SubSeq(s, lead + 1, Len(s) - TrailingWhiteSpace(s))

\* The length of the match of \[\^[A-Za-z0-9-]+\] at the head of s, 0 if none.
MarkerLen(s) ==
    IF Len(s) >= 4 /\ s[1] = "[" /\ s[2] = "^"
    THEN LET k == Run(s, 3, NonIdChars, FALSE) IN
         IF k >= 1 /\ 3 + k <= Len(s) /\ s[3 + k] = "]" THEN 3 + k ELSE 0
    ELSE 0

\* re.sub(r'\[\^[A-Za-z0-9-]+\]', '', content)
RECURSIVE RemoveMarkers(_)
RemoveMarkers(s) ==
    IF s = <<>> THEN <<>>
    ELSE IF MarkerLen(s) > 0 THEN RemoveMarkers(Drop(s, MarkerLen(s)))
    ELSE <<Head(s)>> \o RemoveMarkers(Tail(s))

\* The length of the match of \n\s*\n\s*\n at the head of s, 0 if none: from a
\* newline to the last newline of the run of white space it starts, when the
\* run has three newlines.
NewlinesLen(s) ==
    IF s # <<>> /\ s[1] = "\n"
    THEN LET k == Run(s, 1, WhiteSpace, TRUE)
             newlines == {j \in 1..k : s[j] = "\n"}
         IN IF Cardinality(newlines) >= 3
            THEN CHOOSE j \in newlines : \A other \in newlines : other <= j
            ELSE 0
    ELSE 0

\* re.sub(r'\n\s*\n\s*\n', '\n\n', content)
RECURSIVE CollapseNewlines(_)
CollapseNewlines(s) ==
    IF s = <<>> THEN <<>>
    ELSE IF NewlinesLen(s) > 0
         THEN <<"\n", "\n">> \o CollapseNewlines(Drop(s, NewlinesLen(s)))
         ELSE <<Head(s)>> \o CollapseNewlines(Tail(s))

\* re.sub(r' +', ' ', content)
RECURSIVE CollapseSpaces(_)
CollapseSpaces(s) ==
    IF s = <<>> THEN <<>>
    ELSE IF Head(s) = " "
         THEN <<" ">> \o CollapseSpaces(Drop(s, Run(s, 1, {" "}, TRUE)))
         ELSE <<Head(s)>> \o CollapseSpaces(Tail(s))

\* content.split('\n') and '\n'.join(lines)
RECURSIVE SplitLines(_)
SplitLines(s) ==
    LET k == Run(s, 1, {"\n"}, FALSE) IN
    IF k = Len(s) THEN <<s>>
    ELSE <<SubSeq(s, 1, k)>> \o SplitLines(Drop(s, k + 1))
RECURSIVE JoinLines(_)
JoinLines(lines) ==
    IF Len(lines) = 1 THEN lines[1]
    ELSE lines[1] \o <<"\n">> \o JoinLines(Tail(lines))

\* (r'^(\d+)\.\s+', r'\1. ') and (r'^(\d+)\)\s+', r'\1. '): mark is "." or ")"
NumberAtStart(line, mark) ==
    LET d == Run(line, 1, Digits, TRUE) IN
    IF d >= 1 /\ d + 1 <= Len(line) /\ line[d + 1] = mark
       /\ Run(line, d + 2, WhiteSpace, TRUE) >= 1
    THEN SubSeq(line, 1, d) \o <<".", " ">>
            \o Drop(line, d + 1 + Run(line, d + 2, WhiteSpace, TRUE))
    ELSE line

\* (r'^Step\s+(\d+):\s*', r'\1. '): the pattern is anchored at the start of
\* the line.
StepAtStart(line) ==
    IF Len(line) >= 2 /\ line[1] = "Step" /\ Run(line, 2, WhiteSpace, TRUE) >= 1
    THEN LET w == Run(line, 2, WhiteSpace, TRUE)
             d == Run(line, 2 + w, Digits, TRUE)
         IN IF d >= 1 /\ 2 + w + d <= Len(line) /\ line[2 + w + d] = ":"
            THEN SubSeq(line, 2 + w, 1 + w + d) \o <<".", " ">>
                    \o Drop(line, 2 + w + d + Run(line, 3 + w + d, WhiteSpace, TRUE))
            ELSE line
    ELSE line

\* The length of the match of <lead>\s*(\d+)\.\s+ at the head of s, 0 if none.
LeadNumberLen(s, lead) ==
    IF s # <<>> /\ s[1] = lead
    THEN LET w == Run(s, 2, WhiteSpace, TRUE)
             d == Run(s, 2 + w, Digits, TRUE)
         IN IF d >= 1 /\ 2 + w + d <= Len(s) /\ s[2 + w + d] = "."
               /\ Run(s, 3 + w + d, WhiteSpace, TRUE) >= 1
            THEN 2 + w + d + Run(s, 3 + w + d, WhiteSpace, TRUE)
            ELSE 0
    ELSE 0

\* (r'•\s*(\d+)\.\s+', r'\1. ') and (r'-\s*(\d+)\.\s+', r'\1. '): not
\* anchored, every match of the line is replaced.
RECURSIVE LeadNumber(_, _)
LeadNumber(s, lead) ==
    IF s = <<>> THEN <<>>
    ELSE IF LeadNumberLen(s, lead) > 0
         THEN LET w == Run(s, 2, WhiteSpace, TRUE)
                  d == Run(s, 2 + w, Digits, TRUE)
              IN SubSeq(s, 2 + w, 1 + w + d) \o <<".", " ">>
                    \o LeadNumber(Drop(s, LeadNumberLen(s, lead)), lead)
         ELSE <<Head(s)>> \o LeadNumber(Tail(s), lead)

\* The patterns of format_numbered_steps, applied to one line in their order.
FormatLine(line) ==
    LeadNumber(LeadNumber(NumberAtStart(StepAtStart(NumberAtStart(line, ".")), ")"),
                          Bullet), "-")

\* model_serving_utils.format_numbered_steps
format_numbered_steps(content) ==
    LET lines == SplitLines(content) IN
    JoinLines([i \in 1..Len(lines) |-> FormatLine(lines[i])])

\* if line.strip().startswith(':'): line = line.strip()[1:].strip()
FixLeadingColon(line) ==
    IF strip(line) # <<>> /\ strip(line)[1] = ":" THEN strip(Tail(strip(line)))
    ELSE line

\* model_serving_utils.clean_and_format_content, for a content that is a str
clean_and_format_content(content) ==
    LET stepped == format_numbered_steps(
                       strip(CollapseSpaces(CollapseNewlines(RemoveMarkers(content)))))
        lines == SplitLines(stepped)
    IN JoinLines([i \in 1..Len(lines) |-> FixLeadingColon(lines[i])])

(***************************************************************************)
(* The values of an upstream response: None, a str, a list, a dict (its    *)
(* items in insertion order), each under a tag.                            *)
(***************************************************************************)
VNone == [t |-> "none", v |-> <<>>]
VStr(s) == [t |-> "str", v |-> s]
VList(items) == [t |-> "list", v |-> items]
VDict(items) == [t |-> "dict", v |-> items]

\* bool(x): None, "", [] and {} are falsy
Truthy(x) == x.v # <<>>
\* key in d, d[key]
Has(d, key) == \E i \in 1..Len(d.v) : d.v[i][1] = key
Get(d, key) == d.v[CHOOSE i \in 1..Len(d.v) : d.v[i][1] = key][2]

\* repr(x)
RECURSIVE Repr(_)
RECURSIVE ReprItems(_)
RECURSIVE ReprPairs(_)
Repr(x) ==
    CASE x.t = "none" -> <<"None">>
      [] x.t = "str" -> <<"'">> \o x.v \o <<"'">>
      [] x.t = "list" -> <<"[">> \o ReprItems(x.v) \o <<"]">>
      [] OTHER -> <<"{">> \o ReprPairs(x.v) \o <<"}">>
ReprItems(items) ==
    IF items = <<>> THEN <<>>
    ELSE IF Len(items) = 1 THEN Repr(items[1])
    ELSE Repr(items[1]) \o <<",", " ">> \o ReprItems(Tail(items))
ReprPairs(items) ==
    IF items = <<>> THEN <<>>
    ELSE LET pair == <<"'", items[1][1], "'", ":", " ">> \o Repr(items[1][2]) IN
         IF Len(items) = 1 THEN pair
         ELSE pair \o <<",", " ">> \o ReprPairs(Tail(items))

\* str(x)
Str(x) == IF x.t = "str" THEN x.v ELSE Repr(x)

\* str(res) of the SDK's response object
StrRes(res) == <<"QueryEndpointResponse", "(", "predictions", "=">>
                   \o Repr(res.predictions) \o <<")">>

\* An exception raised while a response is processed.
Raised == [t |-> "raised", v |-> <<>>]

\* text_parts: item['text'] of the dicts that have it, and the items that are str
RECURSIVE TextParts(_)
TextParts(items) ==
    IF items = <<>> THEN <<>>
    ELSE LET item == Head(items) IN
         IF item.t = "dict" /\ Has(item, "text")
         THEN <<Get(item, "text")>> \o TextParts(Tail(items))
         ELSE IF item.t = "str" THEN <<item>> \o TextParts(Tail(items))
         ELSE TextParts(Tail(items))

\* " ".join(text_parts): a TypeError when a part is not a str
RECURSIVE JoinSpace(_)
JoinSpace(parts) ==
    IF Len(parts) = 1 THEN parts[1].v
    ELSE parts[1].v \o <<" ">> \o JoinSpace(Tail(parts))
JoinTextParts(parts) ==
    IF \A i \in 1..Len(parts) : parts[i].t = "str" THEN VStr(JoinSpace(parts))
    ELSE Raised

\* The first position of s where "text': '" starts, 0 if none.
TextKeyAt(s) ==
    LET at == {i \in 1..(Len(s) - 4) :
                  SubSeq(s, i, i + 4) = <<"text", "'", ":", " ", "'">>}
    IN IF at = {} THEN 0 ELSE CHOOSE i \in at : \A other \in at : i <= other

\* re.search(r"text': '([^']*(?:\\'[^']*)*)'", content): the lexemes between
\* the first "text': '" and the quote that closes it.
ExtractText(s) ==
    IF TextKeyAt(s) = 0 THEN s
    ELSE LET from == TextKeyAt(s) + 5
             k == Run(s, from, {"'"}, FALSE)
         IN IF from + k <= Len(s) THEN SubSeq(s, from, from + k - 1) ELSE s

\* _query_endpoint, the extraction of the agent branch
AgentContent(res) ==
    LET prediction == res.predictions IN
    IF ~Truthy(prediction) THEN VStr(StrRes(res))
    ELSE IF prediction.t # "dict" THEN VStr(Str(prediction))
    ELSE IF /\ Has(prediction, "output")
            /\ Get(prediction, "output").t = "list"
            /\ Len(Get(prediction, "output").v) > 0
    THEN LET output_item == Get(prediction, "output").v[1] IN
         IF output_item.t = "dict" /\ Has(output_item, "content")
         THEN LET content_list == Get(output_item, "content") IN
              IF content_list.t = "list" /\ Len(content_list.v) > 0
              THEN IF TextParts(content_list.v) # <<>>
                   THEN JoinTextParts(TextParts(content_list.v))
                   ELSE VStr(Str(output_item))
              ELSE VStr(Str(output_item))
         ELSE VStr(Str(output_item))
    ELSE IF Has(prediction, "response") THEN Get(prediction, "response")
    ELSE IF Has(prediction, "content") THEN Get(prediction, "content")
    ELSE VStr(Str(prediction))

\* _query_endpoint, the processing of an agent response: a content that is a
\* str is cleaned, another content is returned as it is
CleanedAgentContent(content, res) ==
    IF content.t = "raised" THEN VStr(StrRes(res))   \* except: str(res)
    ELSE IF content.t = "str"
         THEN VStr(clean_and_format_content(ExtractText(content.v)))
         ELSE content
process_agent_response(res) == CleanedAgentContent(AgentContent(res), res)

\* _query_endpoint, the extraction of the chat-completion branch
ChatContent(res) ==
    LET predictions == res.predictions IN
    IF ~Truthy(predictions) THEN VStr(StrRes(res))
    ELSE IF predictions.t = "dict" THEN Raised               \* predictions[0]: KeyError
    ELSE LET prediction == IF predictions.t = "list" THEN predictions.v[1]
                           ELSE VStr(<<predictions.v[1]>>)
         IN IF prediction.t # "dict" THEN VStr(Str(prediction))
            ELSE IF Has(prediction, "choices") /\ Get(prediction, "choices").t = "list"
            THEN IF Get(prediction, "choices").v = <<>> THEN Raised  \* IndexError
                 ELSE LET choice == Get(prediction, "choices").v[1] IN
                      IF choice.t = "dict" /\ Has(choice, "message")
                      THEN LET message == Get(choice, "message") IN
                           IF message.t = "dict" /\ Has(message, "content")
                           THEN VStr(clean_and_format_content(
                                         Str(Get(message, "content"))))
                           ELSE VStr(Str(message))
                      ELSE VStr(Str(choice))
            ELSE IF Has(prediction, "response")
            THEN VStr(clean_and_format_content(Str(Get(prediction, "response"))))
            ELSE IF Has(prediction, "content")
            THEN VStr(clean_and_format_content(Str(Get(prediction, "content"))))
            ELSE VStr(Str(prediction))

\* _query_endpoint, the processing of a chat-completion response
CaughtChatContent(content, res) ==
    IF content.t = "raised" THEN VStr(StrRes(res)) ELSE content   \* except: str(res)
process_chat_response(res) == CaughtChatContent(ChatContent(res), res)

(***************************************************************************)
(* The chat-send path: the module-level check of the serving endpoint,     *)
(* query_endpoint / _query_endpoint of model_serving_utils.py, query_llm   *)
(* and POST /chat of app_databricks.py.                                    *)
(***************************************************************************)
\* The task types an endpoint may have: two of supported_task_types, the
\* second being the one _query_endpoint has an agent branch for, and one that
\* is not in the list.
TaskTypes == {"llm/v1/chat", "agent/v1/responses", "llm/v1/embeddings"}
supported_task_types == {"agent/v1/chat", "agent/v2/chat", "llm/v1/chat",
                         "agent/v1/responses"}

\* model_serving_utils.is_endpoint_supported: False when the lookup raises
is_endpoint_supported(task_type, lookupFails) ==
    ~lookupFails /\ task_type \in supported_task_types

\* The bodies w.serving_endpoints.query may answer with.
Hello == <<"Hello", " ", "[", "^", "a1", "]", " ", "world">>
ChatShape(content) ==
    [predictions |-> VList(<<VDict(<<
        <<"choices", VList(<<VDict(<<
            <<"message", VDict(<< <<"content", content>> >>)>> >>)>>)>> >>)>>)]
AgentShape(texts) ==
    [predictions |-> VDict(<<
        <<"output", VList(<<VDict(<<
            <<"content", VList([i \in 1..Len(texts) |->
                VDict(<< <<"type", VStr(<<"text">>)>>, <<"text", texts[i]>> >>)])>> >>)>>)>> >>)]
Responses ==
    <<ChatShape(VStr(Hello)), ChatShape(VStr(<<>>)), ChatShape(VNone),
     ChatShape(VStr(<<"[", "^", "a1", "]">>)),
     AgentShape(<<VStr(<<"Hello">>), VStr(<<"world">>)>>),
     AgentShape(<<VStr(<<>>)>>),
     [predictions |-> VDict(<< <<"response", VStr(<<" ">>)>> >>)],
     [predictions |-> VDict(<< <<"response", VNone>> >>)],
     [predictions |-> VList(<<VDict(<< <<"choices", VList(<<>>)>> >>)>>)],
     [predictions |-> VNone],
     AgentShape(<<VStr(<<"Step", " ", "1", ":", " ", "Do", " ", "X">>),
                  VStr(<<" ", "then", " ", "Step", " ", "2", ":", " ", "Do", " ", "Y">>)>>),
     [predictions |-> VDict(<< <<"output", VList(<<VDict(<< <<"content", VList(<<>>)>> >>)>>)>>,
                               <<"response", VStr(<<"Hello">>)>> >>)],
     [predictions |-> VDict(<< <<"response", VStr(<<"Hello">>)>>,
                               <<"content", VStr(<<"world">>)>> >>)],
     [predictions |-> VDict(<< <<"content", VStr(<<"world">>)>> >>)],
     [predictions |-> VDict(<< <<"other", VStr(<<"x">>)>> >>)],
     [predictions |-> VList(<<VDict(<< <<"choices", VList(<<VDict(<< <<"other", VStr(<<"x">>)>> >>)>>)>>,
                                       <<"response", VStr(<<"Hello">>)>> >>)>>)],
     [predictions |-> VList(<<VDict(<< <<"response", VStr(<<"Hello">>)>>,
                                       <<"content", VStr(<<"world">>)>> >>)>>)],
     [predictions |-> VList(<<VDict(<< <<"content", VStr(<<"world">>)>> >>)>>)],
     [predictions |-> VList(<<VDict(<< <<"other", VStr(<<"x">>)>> >>)>>)]>>

\* What happens to one call of the serving endpoint: the task-type lookup
\* raises, the query times out, the query raises (a non-2xx answer), or the
\* query answers with a body.
OutcomeKinds == {"lookup_error", "timeout", "error", "response"}
Outcome(kind, r) ==
    [kind |-> kind, r |-> IF kind = "response" THEN r ELSE 0,
     res |-> IF kind = "response" THEN Responses[r] ELSE [predictions |-> VNone]]

\* str(e) of what the SDK raises
SdkErrorText == <<"PermissionDenied", ":", " ", "endpoint">>
TimedOutText(task_type) ==
    <<IF task_type = "agent/v1/responses" THEN "Agent" ELSE "Chat", " ", "endpoint",
      " ", "timed", " ", "out", " ", "after", " ", "30", " ", "seconds">>

\* model_serving_utils._query_endpoint: the content of the message it returns,
\* or the text of the exception it raises
_query_endpoint(task_type, outcome) ==
    LET raise(text) == [ok |-> FALSE, content |-> VNone,
                        err |-> <<"Error", " ", "calling", " ", "serving", " ",
                                  "endpoint", ":", " ">> \o text]
    IN CASE outcome.kind = "lookup_error" -> raise(SdkErrorText)
         [] outcome.kind = "timeout" -> raise(TimedOutText(task_type))
         [] outcome.kind = "error" -> raise(SdkErrorText)
         [] OTHER ->
              [ok |-> TRUE, err |-> <<>>,
               content |-> IF task_type = "agent/v1/responses"
                           THEN process_agent_response(outcome.res)
                           ELSE process_chat_response(outcome.res)]

\* The calls _query_endpoint makes to the workspace: the lookup of the task
\* type, then one query unless the lookup raised.
_query_endpoint_calls(outcome) ==
    IF outcome.kind = "lookup_error" THEN <<"llm.get">> ELSE <<"llm.get", "llm.query">>

\* model_serving_utils.query_endpoint
Requeried(response) ==
    IF response.ok THEN response
    ELSE [response EXCEPT !.err = <<"Error", " ", "querying", " ", "endpoint", ":", " ">>
                                      \o response.err]
query_endpoint(task_type, outcome) == Requeried(_query_endpoint(task_type, outcome))

EmptyQuestion == <<"ERROR", ":", " ", "The", " ", "question", " ", "should", " ",
                   "not", " ", "be", " ", "empty">>

\* app_databricks.query_llm: what it returns
\* return response["content"], or f"Error: {str(e)}" in the except clause
ContentOrError(response) ==
    IF response.ok THEN response.content
    ELSE VStr(<<"Error", ":", " ">> \o response.err)
query_llm(message, task_type, outcome) ==
    IF strip(message) = <<>> THEN VStr(EmptyQuestion)
    ELSE ContentOrError(query_endpoint(task_type, outcome))

\* The reply of the except clause of chat_endpoint.
SorryReply == <<"I'm", " ", "sorry", ",", " ", "I", " ", "encountered", " ", "an", " ",
                "error", ".", " ", "Please", " ", "try", " ", "again", ".">>
UnknownUser == <<"unknown@databricks.com">>

\* The reply without the validation of ChatResponse: whatever query_llm returned.
chat_reply_Unvalidated(response_content) == response_content.v

\* ChatResponse(response=response_content) inside the try block of
\* chat_endpoint: a content that is no str fails the validation and the except
\* clause answers with the fixed reply.
chat_reply(response_content) ==
    IF response_content.t = "str" THEN response_content.v ELSE SorryReply

\* chat_message.message of a request
ChatMessages == {<<>>, <<" ">>, <<"hi">>}

\* The module is loaded: endpoint_supported = is_endpoint_supported(SERVING_ENDPOINT),
\* and the application is created whatever the value.
load_app(task_type, lookupFails) ==
    /\ endpoint_supported = None
    /\ endpoint_task' = task_type
    /\ endpoint_supported' = Some(is_endpoint_supported(task_type, lookupFails))
    /\ last' = Response("load", NoEmail, "", 0, <<>>, 0, FALSE, NoData)
    /\ UNCHANGED <<now, appVars, authVars, in_flight>>

\* POST /chat
chat_endpoint(user_token, header_email, message, outcome) ==
    LET resolved == ResolveEmail(user_token, header_email)
        user_email == IF resolved = NoEmail THEN UnknownUser ELSE resolved
    IN /\ endpoint_supported # None
       /\ UNCHANGED <<now, appVars, authVars, chatVars>>
       /\ IF strip(message) = <<>>
          THEN last' = [Response("chat", NoEmail, "", 400, <<>>, 0, FALSE, NoData)
                           EXCEPT !.chat = [NoChat EXCEPT !.message = message,
                                                          !.task = endpoint_task]]
          ELSE \E response_content \in {query_llm(message, endpoint_task, outcome)},
                  called \in {query_endpoint(endpoint_task, outcome)} :
                 last' = [Response("chat", user_email, "", 200,
                                   chat_reply(response_content), 0, FALSE, NoData)
                             EXCEPT !.chat = [message |-> message, task |-> endpoint_task,
                                              outcome |-> outcome.kind, r |-> outcome.r,
                                              err |-> called.err,
                                              content |-> called.content],
                                    !.calls = _query_endpoint_calls(outcome)]

\* The application loads and serves chat requests.
NextChat ==
    \/ \E task_type \in TaskTypes, lookupFails \in BOOLEAN : load_app(task_type, lookupFails)
    \/ \E ident \in Identities, message \in ChatMessages, kind \in OutcomeKinds,
          r \in 1..Len(Responses) :
         /\ kind # "response" => r = 1
         /\ chat_endpoint(ident[1], ident[2], message, Outcome(kind, r))
         /\ UNCHANGED in_flight

SpecChat == Init /\ [][NextChat]_vars

Next ==
    \/ \E ident \in Identities, dbFails \in BOOLEAN :
         /\ Anonymous(ident, UnknownId, NoData, dbFails)
         /\ get_conversations(ident[1], ident[2], dbFails)
         /\ UNCHANGED in_flight
    \/ \E ident \in Identities, data \in ConversationData, userFails \in BOOLEAN :
         /\ Anonymous(ident, UnknownId, data, userFails)
         /\ create_conversation(ident[1], ident[2], data, userFails, FALSE)
         /\ UNCHANGED in_flight
         /\ Within(MaxTime)
    \/ \E ident \in Identities, id \in RequestIds, data \in ConversationData,
          dbFails \in BOOLEAN :
         /\ Anonymous(ident, id, data, dbFails)
         /\ update_conversation(ident[1], ident[2], id, data, dbFails)
         /\ Within(MaxTime)
         /\ UNCHANGED in_flight
    \/ \E ident \in Identities, id \in RequestIds, dbFails \in BOOLEAN :
         /\ Anonymous(ident, id, NoData, dbFails)
         /\ delete_conversation(ident[1], ident[2], id, dbFails)
    \/ \E ident \in Identities, dbFails \in BOOLEAN :
         /\ Anonymous(ident, UnknownId, NoData, dbFails)
         /\ cleanup_conversations(ident[1], ident[2], dbFails)
    \/ \E e \in Emails, t \in Titles, m \in MsgSeqs,
          userFails \in BOOLEAN, dbFails \in BOOLEAN :
         CreateService(e, t, m, NewDurableId, userFails, dbFails) /\ Within(MaxTime)

Spec == Init /\ [][Next]_vars

\* The stores exercised directly, one operation at a time.
NextStore ==
    \/ \E e \in Emails, t \in Titles, m \in MsgSeqs, dbFails \in BOOLEAN :
         CreateService(e, t, m, NewDurableId, FALSE, dbFails) /\ Within(MaxTime)
    \/ \E e \in Emails, dbFails \in BOOLEAN : ListService(e, dbFails)
    \/ \E id \in RequestIds, e \in Emails, data \in ConversationData, dbFails \in BOOLEAN :
         UpdateService(id, e, data.title, data.messages, dbFails) /\ Within(MaxTime)
    \/ \E id \in RequestIds, e \in Emails, dbFails \in BOOLEAN : DeleteService(id, e, dbFails)
    \/ \E e \in Emails, dbFails \in BOOLEAN : CleanupService(e, dbFails)
    \/ \E e \in Emails, t \in Titles, m \in {None, Some(<<"m1">>)} :
         mock_create_conversation(e, t, m) /\ Within(MaxTime)
    \/ \E id \in RequestIds, e \in Emails, data \in ConversationData :
         mock_update_conversation(id, e, data.title, data.messages) /\ Within(MaxTime)
    \/ \E e \in Emails : mock_get_user_conversations(e)
    \/ \E id \in RequestIds, e \in Emails : mock_delete_conversation(id, e)
    \/ \E e \in Emails : mock_cleanup_empty_conversations(e)

SpecStore == Init /\ [][NextStore]_vars

\* The endpoints that create and list, with room for one conversation more
\* than the limit.
NextCreate ==
    \/ \E ident \in Identities, data \in ConversationData, userFails \in BOOLEAN :
         /\ Anonymous(ident, UnknownId, data, userFails)
         /\ create_conversation(ident[1], ident[2], data, userFails, FALSE)
         /\ UNCHANGED in_flight
         /\ Within(MaxCreates)
    \/ \E ident \in Identities, dbFails \in BOOLEAN :
         /\ Anonymous(ident, UnknownId, NoData, dbFails)
         /\ get_conversations(ident[1], ident[2], dbFails)
         /\ UNCHANGED in_flight

SpecCreate == Init /\ [][NextCreate]_vars

\* The database clock: current_timestamp() reads the instant of the statement
\* before it or a later one.
Timestamps == {now, Stamp}

NextAuth ==
    \/ \E found \in BOOLEAN : initialize(found)
    \/ \E uid \in UserIds, t \in Timestamps, fails \in FailureModes :
         auth_create_conversation(uid, "T1", t, fails) /\ Within(MaxAuthTime)
    \/ \E id \in LbIds, t \in Timestamps, fails \in FailureModes :
         auth_update_conversation(id, None, t, fails) /\ Within(MaxAuthTime)
    \/ \E id \in LbIds, fails \in FailureModes : auth_delete_conversation(id, fails)

SpecAuth == Init /\ [][NextAuth]_vars

\* The messages key of the body of an update: the list the client sends, which
\* may or may not start with the list the conversation holds.
MessageUpdates == {Some(<<>>), Some(<<"m1">>), Some(<<"m2">>), Some(<<"m1", "m2">>)}

\* Conversations created with one message, and updates of their messages
\* through the durable service, the in-memory function and the endpoint.
NextMessages ==
    \/ \E e \in Emails, dbFails \in BOOLEAN :
         CreateService(e, "T1", <<"m1">>, NewDurableId, FALSE, dbFails) /\ Within(MaxTime)
    \/ \E e \in Emails :
         mock_create_conversation(e, "T1", Some(<<"m1">>)) /\ Within(MaxTime)
    \/ \E id \in RequestIds, e \in Emails, m \in MessageUpdates, dbFails \in BOOLEAN :
         UpdateService(id, e, None, m, dbFails) /\ Within(MaxTime)
    \/ \E id \in RequestIds, e \in Emails, m \in MessageUpdates :
         mock_update_conversation(id, e, None, m) /\ Within(MaxTime)
    \/ \E ident \in Identities, id \in RequestIds, m \in MessageUpdates, dbFails \in BOOLEAN :
         /\ Anonymous(ident, id, NoData, dbFails)
         /\ update_conversation(ident[1], ident[2], id, [title |-> None, messages |-> m],
                                dbFails)
         /\ Within(MaxTime)
         /\ UNCHANGED in_flight

SpecMessages == Init /\ [][NextMessages]_vars

\* The last instant of the clock when two clients update one conversation:
\* a create and two updates.
MaxRaceTime == 3

\* The message each client appends.
Appended(c) == IF c = "c1" THEN "m2" ELSE "m3"

\* The messages of the conversation `id`, as the responses of the endpoints
\* give them to a client at this instant.
StoredMessages(id) ==
    IF \E c \in db_convs : c.id = id
    THEN (CHOOSE c \in db_convs : c.id = id).messages
    ELSE StorageGet(conversations_storage, id)[1].messages

\* Client c sends PUT /conversations/{id} with the messages it has read and
\* its own message after them; the request is on its way.
send_update(c, id) ==
    /\ in_flight[c].st = "idle"
    /\ id \in RequestIds \ {UnknownId}
    /\ in_flight' = [in_flight EXCEPT ![c] =
                        [st |-> "sent", token |-> "tokA", header |-> NoEmail,
                         id |-> id, status |-> 0, rows |-> {}, attempt |-> 0,
                         messages |-> StoredMessages(id) \o <<Appended(c)>>]]
    /\ UNCHANGED <<now, appVars, authVars, chatVars, last>>

\* The application serves the request of client c: update_conversation runs
\* with the body as sent, whatever was served since.
serve_update(c, dbFails) ==
    /\ in_flight[c].st = "sent"
    /\ update_conversation("tokA", NoEmail, in_flight[c].id,
                           [title |-> None, messages |-> Some(in_flight[c].messages)],
                           dbFails)
    /\ in_flight' = [in_flight EXCEPT ![c] = [@ EXCEPT !.st = "done",
                                                       !.status = last'.status]]

\* One user's conversations, in one tier or the other, and two clients that
\* each update one of them once.
NextRace ==
    \/ \E e \in Emails :
         /\ CreateService(e, "T1", <<"m1">>, NewDurableId, FALSE, FALSE)
         /\ Within(MaxRaceTime)
    \/ \E ident \in Identities, userFails \in BOOLEAN :
         /\ ResolveEmail(ident[1], ident[2]) # NoEmail
         /\ create_conversation(ident[1], ident[2],
                                [title |-> None, messages |-> Some(<<"m1">>)],
                                userFails, FALSE)
         /\ UNCHANGED in_flight
         /\ Within(MaxRaceTime)
    \/ \E c \in Clients, id \in RequestIds : send_update(c, id)
    \/ \E c \in Clients, dbFails \in BOOLEAN :
         serve_update(c, dbFails) /\ Within(MaxRaceTime)

SpecRace == Init /\ [][NextRace]_vars

\* The last instant of the clock when conversations are created, updated and
\* listed: two creates and an update.
MaxOrderTime == 3

\* Creates, updates and lists of each tier, the stores answering.
NextOrder ==
    \/ \E e \in Emails :
         CreateService(e, "T1", <<>>, NewDurableId, FALSE, FALSE) /\ Within(MaxOrderTime)
    \/ \E e \in Emails :
         mock_create_conversation(e, "T1", None) /\ Within(MaxOrderTime)
    \/ \E id \in RequestIds, e \in Emails, data \in ConversationData :
         UpdateService(id, e, data.title, data.messages, FALSE) /\ Within(MaxOrderTime)
    \/ \E id \in RequestIds, e \in Emails, data \in ConversationData :
         mock_update_conversation(id, e, data.title, data.messages) /\ Within(MaxOrderTime)
    \/ \E e \in Emails : ListService(e, FALSE)
    \/ \E e \in Emails : mock_get_user_conversations(e)

SpecOrder == Init /\ [][NextOrder]_vars

\* Every endpoint that goes to a store or to the serving endpoint, the durable
\* store holding rows or not, answering or failing.
NextRequests ==
    \/ \E e \in Emails :
         CreateService(e, "T1", <<>>, NewDurableId, FALSE, FALSE) /\ Within(MaxTime)
    \/ \E ident \in Identities, dbFails \in BOOLEAN :
         /\ Anonymous(ident, UnknownId, NoData, dbFails)
         /\ get_conversations(ident[1], ident[2], dbFails)
         /\ UNCHANGED in_flight
    \/ \E ident \in Identities, userFails \in BOOLEAN :
         /\ Anonymous(ident, UnknownId, NoData, userFails)
         /\ create_conversation(ident[1], ident[2], NoData, userFails, FALSE)
         /\ UNCHANGED in_flight
         /\ Within(MaxTime)
    \/ \E ident \in Identities, id \in RequestIds, dbFails \in BOOLEAN :
         /\ Anonymous(ident, id, NoData, dbFails)
         /\ update_conversation(ident[1], ident[2], id,
                                [title |-> Some("T1"), messages |-> None], dbFails)
         /\ Within(MaxTime)
         /\ UNCHANGED in_flight
    \/ \E ident \in Identities, id \in RequestIds, dbFails \in BOOLEAN :
         /\ Anonymous(ident, id, NoData, dbFails)
         /\ delete_conversation(ident[1], ident[2], id, dbFails)
    \/ \E ident \in Identities, dbFails \in BOOLEAN :
         /\ Anonymous(ident, UnknownId, NoData, dbFails)
         /\ cleanup_conversations(ident[1], ident[2], dbFails)
    \/ \E op \in {"list", "create", "update", "delete", "cleanup"}, ident \in Identities,
          id \in RequestIds, dbFails \in BOOLEAN :
         /\ op \in {"list", "create", "cleanup"} => id = UnknownId
         /\ in_memory_raises(op, ident[1], ident[2], id, dbFails)
    \/ \E task_type \in {"llm/v1/chat"} : load_app(task_type, FALSE)
    \/ \E message \in ChatMessages, kind \in OutcomeKinds :
         chat_endpoint("tokA", NoEmail, message, Outcome(kind, 1)) /\ UNCHANGED in_flight

SpecRequests == Init /\ [][NextRequests]_vars

(***************************************************************************)
(* What the two tiers hold, read through one pair of glasses.              *)
(***************************************************************************)
\* The email of the user a durable row belongs to (conversations.user_id is a
\* foreign key to users.id).
RowOwner(row) == (CHOOSE u \in db_users : u.id = row.user_id).email

NoConv == [owner |-> NoEmail]

\* The conversation `id` as the tier that holds it stores it.
Held(id) ==
    IF ConvById(db_convs, id) # {}
    THEN LET row == CHOOSE c \in ConvById(db_convs, id) : TRUE IN
         [owner |-> RowOwner(row), title |-> row.title, messages |-> row.messages,
          created_at |-> isoformat(row.created_at),
          updated_at |-> isoformat(row.updated_at)]
    ELSE IF StorageGet(conversations_storage, id) # <<>>
    THEN LET c == StorageGet(conversations_storage, id)[1] IN
         [owner |-> c.user_email, title |-> c.title, messages |-> c.messages,
          created_at |-> c.created_at, updated_at |-> c.updated_at]
    ELSE NoConv

HeldIds == {id \in RequestIds : Held(id) # NoConv}
OwnedIds(email) == {id \in HeldIds : Held(id).owner = email}
AllHeld == [id \in ConvIds |-> Held(id)]

(***************************************************************************)
(* Ownership isolation on update.                                          *)
(***************************************************************************)
\* C1: whenever PUT /conversations/{id} is served for an email B and the id is
\* held, in either tier, by an owner A other than B (other as a whole string:
\* B being a prefix of A does not make B the owner), the answer is 404 Not
\* Found and the conversation's title, messages and updated_at, and every
\* other stored conversation, are as they were.  It holds whether or not
\* the database answers.
C1_OwnershipIsolationOnUpdate ==
    [][\A id \in HeldIds :
          (/\ last'.op = "update"
           /\ last'.id = id
           /\ last'.email # NoEmail
           /\ last'.email # Held(id).owner)
          => (/\ last'.status = 404
              /\ Held(id)' = Held(id)
              /\ AllHeld' = AllHeld)]_vars

\* C1 witness: an update by EmailA of a conversation EmailB owns (EmailA is a
\* proper prefix of EmailB) has been answered 404.
C1_Witness ==
    /\ last.op = "update"
    /\ last.status = 404
    /\ last.email = EmailA
    /\ last.id \in HeldIds
    /\ Held(last.id).owner = EmailB

EmptyOwnedIds(email) == {id \in OwnedIds(email) : Len(Held(id).messages) = 0}

\* C3: whenever POST /conversations/cleanup is served for an email while the
\* database answers its queries, exactly the conversations that email owns
\* with an empty messages sequence are deleted, deleted_count is their
\* number, and every other conversation is as it was.
C3_CleanupExactlyEmpty ==
    [][(/\ last'.op = "cleanup"
        /\ last'.email # NoEmail
        /\ ~last'.dbFailed)
       => (/\ HeldIds' = HeldIds \ EmptyOwnedIds(last'.email)
           /\ last'.count = Cardinality(EmptyOwnedIds(last'.email))
           /\ \A other \in HeldIds' : Held(other)' = Held(other))]_vars

\* C3 witness: a cleanup served without a database error has answered
\* deleted_count 0 while the caller owns a conversation with no messages.
C3_Witness ==
    /\ last.op = "cleanup"
    /\ ~last.dbFailed
    /\ last.count = 0
    /\ EmptyOwnedIds(last.email) # {}

(***************************************************************************)
(* Listing.                                                                *)
(***************************************************************************)
BodyIds(body) == {body[i].id : i \in 1..Len(body)}
SortedUpdatedDesc(body) ==
    \A i, j \in 1..Len(body) : i < j => body[i].updated_at.iso >= body[j].updated_at.iso

\* The list `body` is exactly the conversations `ids`, each once, each as it is
\* held, newest updated_at first.
ListsExactly(body, ids) ==
    /\ BodyIds(body) = ids
    /\ Len(body) = Cardinality(ids)
    /\ \A i \in 1..Len(body) :
          /\ body[i].title = Held(body[i].id).title
          /\ body[i].messages = Held(body[i].id).messages
          /\ body[i].updated_at = Held(body[i].id).updated_at
    /\ SortedUpdatedDesc(body)

C5_CreateThenList ==
    [][/\ (/\ last.op = "create" /\ last.status = 200 /\ ~last.dbFailed
           /\ last'.op = "list" /\ last'.email = last.email /\ ~last'.dbFailed)
          => \E i \in 1..Len(last'.body) :
                /\ last'.body[i].title = GetOr(last.data.title, DefaultTitle)
                /\ last'.body[i].messages = GetOr(last.data.messages, <<>>)
       /\ (last'.op = "create" /\ last'.status = 200)
          => last'.body[1].created_at = last'.body[1].updated_at]_vars

\* C5 witness: a POST answered 200 with created_at = updated_at, followed by
\* a GET for the same email that lists nothing.
C5_Witness ==
    /\ last.op = "list"
    /\ ~last.dbFailed
    /\ last.body = <<>>
    /\ \E i \in 1..Len(conversations_storage) :
          /\ conversations_storage[i].user_email = last.email
          /\ conversations_storage[i].created_at = conversations_storage[i].updated_at

(***************************************************************************)
(* Fallback.                                                               *)
(***************************************************************************)
\* C6: every answer of GET /conversations for an email includes every
\* conversation of that email that the fallback of POST /conversations has
\* put in the in-memory store.
C6_FallbackCreateListed ==
    (last.op = "list" /\ last.email # NoEmail)
       => \A i \in 1..Len(conversations_storage) :
             conversations_storage[i].user_email = last.email
                => conversations_storage[i].id \in BodyIds(last.body)

\* C6 witness: a POST whose user lookup failed in the database has been
\* answered 200 with a conversation that is in the in-memory store.
C6_Witness ==
    /\ last.op = "create"
    /\ last.status = 200
    /\ last.dbFailed
    /\ last.id \in StorageIds(conversations_storage)

\* A record but for its id (the two tiers draw ids of different shapes).
ButId(record) == [record EXCEPT !.id = ""]

\* C7: the record mock_create_conversation returns is, but for the id, the
\* record the durable create_conversation returns for the same email, title
\* and messages on the same contents: the same fields with the same values.
C7_FallbackTransparency ==
    [][last'.op = "mock_create"
       => LET durable == create_conversation_service(
                             last'.email, last'.data.title[1],
                             GetOr(last'.data.messages, <<>>),
                             NewUserId(last'.email), NewDurableId, FALSE, FALSE).ret
          IN /\ durable # None
             /\ DOMAIN last'.body[1] = DOMAIN durable[1]
             /\ ButId(last'.body[1]) = ButId(durable[1])]_vars

\* C7 witness: the in-memory create has returned a record with a field the
\* durable record does not have.
C7_Witness ==
    /\ last.op = "mock_create"
    /\ "user_email" \in DOMAIN last.body[1]

(***************************************************************************)
(* The limit on a user's conversations.                                    *)
(***************************************************************************)
\* C8: no email owns more than MaxConversations conversations.
C8_LimitInvariant ==
    \A e \in Emails : Cardinality(OwnedIds(e)) <= MaxConversations

\* C8 witness: POST /conversations has been answered 200 for an email that
\* now owns more than MaxConversations conversations.
C8_Witness ==
    /\ last.op = "create"
    /\ last.status = 200
    /\ Cardinality(OwnedIds(last.email)) > MaxConversations

AuthRows(uid) == LbUserRows(lb_convs, uid)
DistinctUpdated(rows) == \A a, b \in rows : a # b => a.updated_at # b.updated_at

\* The step is a create_conversation(uid) that reached the database with every
\* statement succeeding, for a user at or over the limit.
CreateAtLimit ==
    /\ last'.op = "auth_create"
    /\ last'.status = 200
    /\ last'.id \in LbIds
    /\ ~last'.dbFailed
    /\ Cardinality(AuthRows(last'.uid)) >= MaxConversations

NewRow == CHOOSE c \in lb_convs' : c.id = last'.id

\* The k rows of `rows` that come first in the order `Before`.
First(rows, k, Before(_, _)) ==
    CHOOSE S \in SUBSET rows :
        /\ Cardinality(S) = k
        /\ \A d \in S, r \in rows \ S : Before(d, r)

OlderUpdate(a, b) == a.updated_at < b.updated_at

TieBreak(a, b) ==
    \/ a.updated_at < b.updated_at
    \/ a.updated_at = b.updated_at /\ a.created_at < b.created_at
    \/ /\ a.updated_at = b.updated_at
       /\ a.created_at = b.created_at
       /\ LbIndex(a.id) < LbIndex(b.id)

\* C10: the conversations a create_conversation at the limit removes are the
\* first count - MaxConversations + 1 in the order: updated_at ascending,
\* equal updated_at by created_at ascending, equal created_at by id; so they
\* are a function of the stored rows.
C10_DeterministicTieBreak ==
    [][CreateAtLimit
       => LET rows == AuthRows(last'.uid) IN
          last'.deleted = First(rows, Cardinality(rows) - MaxConversations + 1,
                                TieBreak)]_vars

\* C10 witness: a create has removed a conversation and kept one with the
\* same updated_at and a smaller created_at.
C10_Witness ==
    /\ last.op = "auth_create"
    /\ last.status = 200
    /\ ~last.dbFailed
    /\ \E d \in last.deleted, r \in AuthRows(last.uid) :
          d.updated_at = r.updated_at /\ r.created_at < d.created_at

(***************************************************************************)
(* The chat-send path.                                                     *)
(***************************************************************************)
Blank(message) == \A i \in 1..Len(message) : message[i] \in WhiteSpace
LlmFailed == last.chat.outcome \in {"lookup_error", "timeout", "error"}

\* s has the lexemes of sub in a row.
Contains(s, sub) ==
    \E i \in 1..(Len(s) - Len(sub) + 1) : SubSeq(s, i, i + Len(sub) - 1) = sub

\* C11 as stated: every POST /chat whose message is not the empty string is
\* answered 200.
C11_NonEmptyMessageAnswered ==
    (last.op = "chat" /\ last.chat.message # <<>>) => last.status = 200

\* C11: every POST /chat whose message is not blank (not empty once white
\* space is stripped) is answered 200 with a reply, whatever became of the LLM
\* call (the task-type lookup raised, the query timed out, the query raised,
\* the query answered with any body); when what the call returned is no
\* string, the reply is the fixed apology of the endpoint.
C11_ChatAlwaysAnswers ==
    (last.op = "chat" /\ ~Blank(last.chat.message))
       => /\ last.status = 200
          /\ LlmFailed => last.body # <<>>
          /\ (last.chat.outcome = "response" /\ last.chat.content.t # "str")
                => last.body = SorryReply

\* C11 witness: a chat request whose LLM call timed out has been answered 200
\* with a reply.
C11_Witness ==
    /\ last.op = "chat"
    /\ last.chat.outcome = "timeout"
    /\ last.status = 200
    /\ last.body # <<>>

\* The fixed replies of the chat path.
CannedReplies == {SorryReply}

\* C12: when the LLM call of a chat request fails, the reply is one of the
\* fixed replies and the text of the error raised is no part of it.
C12_FailureReplyCanned ==
    (last.op = "chat" /\ last.status = 200 /\ LlmFailed)
       => /\ last.body \in CannedReplies
          /\ ~Contains(last.body, last.chat.err)

\* C12 witness: a chat request whose query raised has been answered with a
\* reply that carries the text of the error.
C12_Witness ==
    /\ last.op = "chat"
    /\ last.chat.outcome = "error"
    /\ Contains(last.body, SdkErrorText)

\* C13: any two chat replies, one after the other, end alike: neither is
\* empty and both end with the same lexeme, as they must if every reply ends
\* with one fixed suffix.
C13_DisclaimerSuffix ==
    [][(/\ last.op = "chat" /\ last.status = 200
        /\ last'.op = "chat" /\ last'.status = 200)
       => (/\ last.body # <<>>
           /\ last'.body # <<>>
           /\ last.body[Len(last.body)] = last'.body[Len(last'.body)])]_vars

\* C13 witness: a chat request has been answered with the model's output and
\* nothing after it.
C13_Witness ==
    /\ last.op = "chat"
    /\ last.chat.outcome = "response"
    /\ last.body = <<"Hello", " ", "world">>

\* C14: the content _query_endpoint returns for a body the endpoint answered
\* with is a string and is not empty.
C14_DegenerateNormalization ==
    (last.op = "chat" /\ last.chat.outcome = "response")
       => (last.chat.content.t = "str" /\ last.chat.content.v # <<>>)

\* C14 witness: _query_endpoint has returned the empty string for a body of
\* the agent task type.
C14_Witness ==
    /\ last.op = "chat"
    /\ last.chat.outcome = "response"
    /\ last.chat.task = "agent/v1/responses"
    /\ last.chat.content = VStr(<<>>)
    /\ last.body = <<>>

\* C20: the application serves no chat request against an endpoint whose task
\* type is unsupported: whenever a chat request has been passed on to the
\* endpoint, the check made when the module was loaded had found the endpoint
\* supported.
C20_UnsupportedRejectedAtStartup ==
    (last.op = "chat" /\ last.status = 200 /\ last.chat.outcome # "none")
       => endpoint_supported = Some(TRUE)

\* C20 witness: the check at load time found the endpoint unsupported (its task
\* type is llm/v1/embeddings), and a chat request has been answered 200 with
\* what the endpoint sent, read as a chat completion.
C20_Witness ==
    /\ endpoint_supported = Some(FALSE)
    /\ endpoint_task = "llm/v1/embeddings"
    /\ last.op = "chat"
    /\ last.status = 200
    /\ last.chat.outcome = "response"
    /\ last.body = <<"Hello", " ", "world">>

(***************************************************************************)
(* Ownership and the message sequence of a conversation.                   *)
(***************************************************************************)
\* C15: no step changes the owner of a conversation that is there before and
\* after it: a row of the conversations table keeps its user_id and the user
\* keeps its email, a conversation of the in-memory storage keeps its
\* user_email.
C15_OwnerNeverChanges ==
    [][/\ \A u \in db_users : u \in db_users'
       /\ \A c \in db_convs : \A d \in db_convs' :
              c.id = d.id => d.user_id = c.user_id
       /\ \A i \in 1..Len(conversations_storage) :
              \A j \in 1..Len(conversations_storage') :
                 conversations_storage[i].id = conversations_storage'[j].id
                    => conversations_storage'[j].user_email
                          = conversations_storage[i].user_email]_vars

\* C15 witness: a conversation of the in-memory storage has been updated
\* since it was created, and the last request was an update of it, refused to
\* a caller who is not its owner.
C15_Witness ==
    /\ last.op = "mock_update"
    /\ last.body = None
    /\ \E i \in 1..Len(conversations_storage) :
          /\ conversations_storage[i].id = last.id
          /\ conversations_storage[i].user_email # last.email
          /\ conversations_storage[i].updated_at.iso
                > conversations_storage[i].created_at.iso

\* s is a prefix of t.
IsPrefix(s, t) == Len(s) <= Len(t) /\ SubSeq(t, 1, Len(s)) = s

\* The update the step has served succeeded.
UpdateSucceeded ==
    \/ last'.op \in {"svc_update", "mock_update"} /\ last'.body # None
    \/ last'.op = "update" /\ last'.status = 200

\* C16: after every successful update of a conversation, the messages it held
\* before the update are a prefix of the messages it holds after it, in the
\* conversations table and in the in-memory storage.
C16_MessagesPrefixPreserved ==
    [][UpdateSucceeded =>
          /\ \A c \in db_convs : \A d \in db_convs' :
                 (c.id = last'.id /\ d.id = c.id) => IsPrefix(c.messages, d.messages)
          /\ \A i \in 1..Len(conversations_storage) :
                 \A j \in 1..Len(conversations_storage') :
                    (/\ conversations_storage[i].id = last'.id
                     /\ conversations_storage'[j].id = last'.id)
                       => IsPrefix(conversations_storage[i].messages,
                                   conversations_storage'[j].messages)]_vars

\* C16 witness: a conversation created with the message m1 has been updated by
\* its owner with a list that does not start with m1, and holds that list: m1
\* is gone.
C16_Witness ==
    /\ last.op = "svc_update"
    /\ last.body # None
    /\ last.data.messages = Some(<<"m2">>)
    /\ \E c \in db_convs : c.id = last.id /\ c.messages = <<"m2">>

(***************************************************************************)
(* Concurrent updates of one conversation.                                 *)
(***************************************************************************)
\* Both clients' updates of the conversation `id` have been answered 200.
BothUpdated(id) ==
    \A c \in Clients : /\ in_flight[c].st = "done"
                       /\ in_flight[c].id = id
                       /\ in_flight[c].status = 200

\* m is one of the messages s.
HasMessage(s, m) == \E i \in 1..Len(s) : s[i] = m

\* C17: once the updates of two clients on one conversation, each appending
\* its message to the messages it read, have both been answered 200, the
\* conversation holds both appended messages.
C17_NoLostUpdate ==
    \A id \in RequestIds \ {UnknownId} :
       BothUpdated(id) => \A c \in Clients : HasMessage(StoredMessages(id), Appended(c))

\* C17 witness: both clients read [m1] and sent their update before either
\* was served; both were answered 200 and the conversation holds m1 and the
\* message of one client only.
C17_Witness ==
    \E id \in RequestIds \ {UnknownId} :
       /\ BothUpdated(id)
       /\ in_flight["c1"].messages = <<"m1", "m2">>
       /\ in_flight["c2"].messages = <<"m1", "m3">>
       /\ StoredMessages(id) \in {<<"m1", "m2">>, <<"m1", "m3">>}

VolatileCalled ==
    \E i \in 1..Len(last.calls) :
       last.calls[i] \in {"volatile.list", "volatile.create", "volatile.update",
                          "volatile.delete", "volatile.cleanup"}

\* Neither tier served the last request: the durable store failed, and the
\* in-memory code raised or was not called.
BothTiersFailed == last.dbFailed /\ (last.volFailed \/ ~VolatileCalled)

Mutated == last'.op \in {"svc_update", "mock_update"} /\ last'.body # None

LastRes == Responses[last.chat.r]

\* The text fragments under output[0].content of a prediction, none when the
\* path is not there.
OutputTexts(prediction) ==
    IF /\ Has(prediction, "output")
       /\ Get(prediction, "output").t = "list"
       /\ Len(Get(prediction, "output").v) > 0
       /\ Get(prediction, "output").v[1].t = "dict"
       /\ Has(Get(prediction, "output").v[1], "content")
       /\ Get(Get(prediction, "output").v[1], "content").t = "list"
    THEN SelectSeq(TextParts(Get(Get(prediction, "output").v[1], "content").v),
                   LAMBDA part : part.t = "str")
    ELSE <<>>

\* The rules of the agent shape in their order: the joined fragments, then
\* response, then content, then the prediction as a string.
AgentByPriority(prediction) ==
    IF OutputTexts(prediction) # <<>> THEN VStr(JoinSpace(OutputTexts(prediction)))
    ELSE IF Has(prediction, "response") THEN Get(prediction, "response")
    ELSE IF Has(prediction, "content") THEN Get(prediction, "content")
    ELSE VStr(Str(prediction))

\* C23: for an agent endpoint that answers with a dict of predictions, the
\* content returned is what the rules give in their order (fragments of
\* output[0].content joined with one space; without fragments response, then
\* content, then the prediction as a string), cleaned as every content is.
C23_AgentPriorityOrder ==
    (/\ last.op = "chat" /\ last.chat.outcome = "response"
     /\ last.chat.task = "agent/v1/responses"
     /\ LastRes.predictions.t = "dict" /\ Truthy(LastRes.predictions))
       => last.chat.content
             = CleanedAgentContent(AgentByPriority(LastRes.predictions), LastRes)

\* C23 witness: the agent answered {"output": [{"content": []}], "response":
\* "Hello"}; the content returned is the output item as a string, not Hello.
C23_Witness ==
    /\ last.op = "chat" /\ last.chat.outcome = "response"
    /\ last.chat.task = "agent/v1/responses"
    /\ LastRes.predictions.t = "dict"
    /\ Has(LastRes.predictions, "output")
    /\ Has(LastRes.predictions, "response")
    /\ Get(LastRes.predictions, "response") = VStr(<<"Hello">>)
    /\ last.chat.content = VStr(<<"{", "'", "content", "'", ":", " ", "[", "]", "}">>)

\* The content under choices[0].message of a prediction is there.
HasMessageContent(prediction) ==
    /\ Has(prediction, "choices")
    /\ Get(prediction, "choices").t = "list"
    /\ Len(Get(prediction, "choices").v) > 0
    /\ Get(prediction, "choices").v[1].t = "dict"
    /\ Has(Get(prediction, "choices").v[1], "message")
    /\ Get(Get(prediction, "choices").v[1], "message").t = "dict"
    /\ Has(Get(Get(prediction, "choices").v[1], "message"), "content")

\* The rules of the chat-completion shape in their order.
ChatByPriority(prediction) ==
    IF HasMessageContent(prediction)
    THEN VStr(clean_and_format_content(
                  Str(Get(Get(Get(prediction, "choices").v[1], "message"), "content"))))
    ELSE IF Has(prediction, "response")
    THEN VStr(clean_and_format_content(Str(Get(prediction, "response"))))
    ELSE IF Has(prediction, "content")
    THEN VStr(clean_and_format_content(Str(Get(prediction, "content"))))
    ELSE VStr(Str(prediction))

\* C24: for a chat-completion endpoint that answers with a list whose first
\* prediction is a dict, the content returned is what the rules give in their
\* order: choices[0].message.content when it is there; when it is not,
\* response, then content, then the prediction as a string.
C24_ChatPriorityOrder ==
    (/\ last.op = "chat" /\ last.chat.outcome = "response"
     /\ last.chat.task = "llm/v1/chat"
     /\ LastRes.predictions.t = "list" /\ Truthy(LastRes.predictions)
     /\ LastRes.predictions.v[1].t = "dict")
       => last.chat.content = ChatByPriority(LastRes.predictions.v[1])

\* C24 witness: the endpoint answered [{"choices": [{"other": "x"}],
\* "response": "Hello"}]; the content returned is the choice as a string, not
\* Hello.
C24_Witness ==
    /\ last.op = "chat" /\ last.chat.outcome = "response"
    /\ last.chat.task = "llm/v1/chat"
    /\ LastRes.predictions.t = "list" /\ Truthy(LastRes.predictions)
    /\ LastRes.predictions.v[1].t = "dict"
    /\ ~HasMessageContent(LastRes.predictions.v[1])
    /\ Has(LastRes.predictions.v[1], "response")
    /\ Get(LastRes.predictions.v[1], "response") = VStr(<<"Hello">>)
    /\ last.chat.content
          = VStr(<<"{", "'", "other", "'", ":", " ", "'", "x", "'", "}">>)

\* The agent response with the fragments "Step 1: Do X" and " then Step 2: Do Y".
StepsAnswered ==
    /\ last.op = "chat" /\ last.chat.outcome = "response"
    /\ last.chat.task = "agent/v1/responses"
    /\ LastRes.predictions.t = "dict"
    /\ OutputTexts(LastRes.predictions)
          = <<VStr(<<"Step", " ", "1", ":", " ", "Do", " ", "X">>),
              VStr(<<" ", "then", " ", "Step", " ", "2", ":", " ", "Do", " ", "Y">>)>>

\* C25: the agent response with the fragments "Step 1: Do X" and
\* " then Step 2: Do Y" is normalized to "1. Do X then 2. Do Y".
C25_StepMarkersRewritten ==
    StepsAnswered
       => last.chat.content = VStr(<<"1", ".", " ", "Do", " ", "X", " ", "then", " ",
                                     "2", ".", " ", "Do", " ", "Y">>)

\* C25 witness: that response is normalized to "1. Do X then Step 2: Do Y".
C25_Witness ==
    /\ StepsAnswered
    /\ last.chat.content = VStr(<<"1", ".", " ", "Do", " ", "X", " ", "then", " ",
                                  "Step", " ", "2", ":", " ", "Do", " ", "Y">>)

(***************************************************************************)
(* POST /chat step by step.  The handlers are coroutines of one event      *)
(* loop: a handler runs until it awaits.  _get_endpoint_task_type is an    *)
(* ordinary call of the SDK made on the loop's thread, so while it waits   *)
(* for the workspace no other coroutine runs and no timer fires.  The      *)
(* query runs in the executor under asyncio.wait_for(..., timeout=30.0).   *)
(***************************************************************************)
\* No handler is inside a call that blocks the loop's thread.
LoopRuns == \A c \in Clients : in_flight[c].st # "lookup"

\* The request of client c with its position.
ChatAt(c, st) == in_flight[c].st = st /\ Len(in_flight[c].messages) = 1
Moved(c, st) == in_flight' = [in_flight EXCEPT ![c] = [@ EXCEPT !.st = st]]
Replied(c) ==
    in_flight' = [in_flight EXCEPT ![c] = [@ EXCEPT !.st = "done",
                                                    !.status = last'.status]]

\* Client c sends POST /chat.
send_chat(c, message) ==
    /\ endpoint_supported # None
    /\ in_flight[c].st = "idle"
    /\ in_flight' = [in_flight EXCEPT ![c] =
                        [st |-> "sent", token |-> "tokA", header |-> NoEmail,
                         id |-> "", status |-> 0, rows |-> {}, attempt |-> 0,
                         messages |-> <<message>>]]
    /\ UNCHANGED <<now, appVars, authVars, chatVars, last>>

\* The loop runs the handler of c's request up to the lookup of the task
\* type: an empty message is rejected before it.
chat_starts(c) ==
    /\ ChatAt(c, "sent")
    /\ LoopRuns
    /\ IF strip(in_flight[c].messages[1]) = <<>>
       THEN /\ chat_endpoint("tokA", NoEmail, in_flight[c].messages[1],
                             Outcome("error", 1))
            /\ Replied(c)
       ELSE /\ Moved(c, "lookup")
            /\ UNCHANGED <<now, appVars, authVars, chatVars, last>>

\* w.serving_endpoints.get answers or raises: the handler goes on to the
\* query and awaits it, or replies with the error.
lookup_answers(c, lookupFails) ==
    /\ ChatAt(c, "lookup")
    /\ IF lookupFails
       THEN /\ chat_endpoint("tokA", NoEmail, in_flight[c].messages[1],
                             Outcome("lookup_error", 1))
            /\ Replied(c)
       ELSE /\ Moved(c, "query")
            /\ UNCHANGED <<now, appVars, authVars, chatVars, last>>

\* w.serving_endpoints.query answers or raises within the 30 seconds.
query_answers(c, outcome) ==
    /\ ChatAt(c, "query")
    /\ LoopRuns
    /\ outcome.kind \in {"error", "response"}
    /\ chat_endpoint("tokA", NoEmail, in_flight[c].messages[1], outcome)
    /\ Replied(c)

\* The timer of asyncio.wait_for fires.
wait_for_timeout(c) ==
    /\ ChatAt(c, "query")
    /\ LoopRuns
    /\ chat_endpoint("tokA", NoEmail, in_flight[c].messages[1], Outcome("timeout", 1))
    /\ Replied(c)

\* The bodies the endpoint answers with while requests are followed step by step.
SendResponses == {1, 5, 11}

\* The application loads and two clients send one chat request each.
NextSend ==
    \/ \E task_type \in TaskTypes, lookupFails \in BOOLEAN : load_app(task_type, lookupFails)
    \/ \E c \in Clients, message \in ChatMessages : send_chat(c, message)
    \/ \E c \in Clients : chat_starts(c)
    \/ \E c \in Clients, lookupFails \in BOOLEAN : lookup_answers(c, lookupFails)
    \/ \E c \in Clients, kind \in {"error", "response"}, r \in SendResponses :
         /\ kind # "response" => r = 1
         /\ query_answers(c, Outcome(kind, r))
    \/ \E c \in Clients : wait_for_timeout(c)

SpecSend == Init /\ [][NextSend]_vars

\* The loop runs every handler that is ready and fires every timer that is
\* due; nothing makes the workspace answer.
SpecSendFair ==
    /\ SpecSend
    /\ \A c \in Clients : WF_vars(chat_starts(c)) /\ WF_vars(wait_for_timeout(c))

\* C26: every chat request that was sent is replied to in the end.
C26_ChatEventuallyCompletes ==
    \A c \in Clients : ChatAt(c, "sent") ~> ChatAt(c, "done")

\* C26 witness: a handler waits for the answer of the lookup while the other
\* request awaits its query, whose timer cannot fire.
C26_Witness ==
    /\ ChatAt("c1", "lookup")
    /\ ChatAt("c2", "query")
    /\ ~ENABLED wait_for_timeout("c2")

(***************************************************************************)
(* Requests with their identity headers, served by the endpoints that      *)
(* list, create and chat.                                                  *)
(***************************************************************************)
\* Client c sends a request with the headers X-Forwarded-Access-Token and
\* X-Forwarded-Email.
send_request(c, user_token, header_email) ==
    /\ endpoint_supported # None
    /\ in_flight[c].st = "idle"
    /\ in_flight' = [in_flight EXCEPT ![c] = [NotSent EXCEPT !.st = "sent",
                                                             !.token = user_token,
                                                             !.header = header_email]]
    /\ UNCHANGED <<now, appVars, authVars, chatVars, last>>

Served(c) ==
    /\ in_flight[c].st = "sent"
    /\ in_flight' = [in_flight EXCEPT ![c] = [@ EXCEPT !.st = "done",
                                                       !.status = last'.status]]

\* The request of c is served as GET /conversations, POST /conversations or
\* POST /chat.
serve_list(c, dbFails) ==
    get_conversations(in_flight[c].token, in_flight[c].header, dbFails) /\ Served(c)
serve_create(c, conversation_data, userFails) ==
    /\ create_conversation(in_flight[c].token, in_flight[c].header, conversation_data,
                           userFails, FALSE)
    /\ Served(c)
serve_chat(c, message, outcome) ==
    chat_endpoint(in_flight[c].token, in_flight[c].header, message, outcome) /\ Served(c)

NextIdentity ==
    \/ load_app("llm/v1/chat", FALSE)
    \/ \E c \in Clients, ident \in Identities : send_request(c, ident[1], ident[2])
    \/ \E c \in Clients, dbFails \in BOOLEAN : serve_list(c, dbFails)
    \/ \E c \in Clients, userFails \in BOOLEAN :
         serve_create(c, NoData, userFails) /\ Within(MaxTime)
    \/ \E c \in Clients, kind \in {"timeout", "response"} :
         serve_chat(c, <<"hi">>, Outcome(kind, 1))

SpecIdentity == Init /\ [][NextIdentity]_vars

\* The request of c carries a token no email is extracted from and an
\* X-Forwarded-Email header.
UnreadableToken(c) ==
    /\ in_flight[c].token # NoToken
    /\ get_user_email_from_token(in_flight[c].token) = NoEmail
    /\ in_flight[c].header # NoEmail

\* C27: a request whose token gives no email and that carries an
\* X-Forwarded-Email header is served under the email of the header.
C27_HeaderFallback ==
    [][\A c \in Clients :
          (in_flight[c].st = "sent" /\ in_flight'[c].st = "done" /\ UnreadableToken(c))
             => last'.email = in_flight[c].header]_vars

\* C27 witness: POST /conversations with such headers was answered 400, no
\* user found.
C27_Witness ==
    \E c \in Clients :
       /\ in_flight[c].st = "done"
       /\ UnreadableToken(c)
       /\ last.op = "create" /\ last.status = 400 /\ last.email = NoEmail
       /\ in_flight[c].status = 400

(***************************************************************************)
(* cleanup_empty_conversations statement by statement.  Each service call  *)
(* runs in a session of its own and awaits every statement, so statements  *)
(* of other calls run in between; the isolation level is the default of    *)
(* PostgreSQL, read committed.                                             *)
(***************************************************************************)
\* The last instant of the clock while a cleanup runs: two creates and an
\* update.
MaxSweepTime == 3

\* select(User), then select(Conversation) where json_array_length(messages)
\* = 0: the session of c holds the rows that are empty now.
cleanup_selects(c, user_email) ==
    /\ in_flight[c].st = "idle"
    /\ UserByEmail(user_email) # {}
    /\ in_flight' = [in_flight EXCEPT ![c] =
                        [NotSent EXCEPT !.st = "selected", !.header = user_email,
                                        !.rows = {r.id : r \in {x \in UserRows(user_email) :
                                                                  Len(x.messages) = 0}}]]
    /\ UNCHANGED <<now, appVars, authVars, chatVars, last>>

\* db.delete(conversation) for each row held, then commit: one DELETE by
\* primary key for each.
cleanup_deletes(c) ==
    /\ in_flight[c].st = "selected"
    /\ db_convs' = {r \in db_convs : r.id \notin in_flight[c].rows}
    /\ in_flight' = [in_flight EXCEPT ![c] = [@ EXCEPT !.st = "done"]]
    /\ last' = Response("svc_cleanup", in_flight[c].header, "", 0, <<>>,
                        Cardinality(in_flight[c].rows), FALSE, NoData)
    /\ UNCHANGED <<now, db_users, conversations_storage, users_storage, authVars, chatVars>>

\* Conversations are created empty, updated with a message, and cleaned up
\* by two calls.
NextSweep ==
    \/ \E e \in Emails :
         CreateService(e, "T1", <<>>, NewDurableId, FALSE, FALSE) /\ Within(MaxSweepTime)
    \/ \E id \in RequestIds, e \in Emails :
         /\ UpdateService(id, e, None, Some(<<"m1">>), FALSE)
         /\ Within(MaxSweepTime)
    \/ \E c \in Clients, e \in Emails : cleanup_selects(c, e)
    \/ \E c \in Clients : cleanup_deletes(c)

SpecSweep == Init /\ [][NextSweep]_vars

\* C28: a conversation that a cleanup deletes has no messages when it is
\* deleted.
C28_CleanupDeletesOnlyEmpty ==
    [][\A r \in db_convs :
          (\A x \in db_convs' : x.id # r.id) => Len(r.messages) = 0]_vars

\* C28 witness: a cleanup holds a conversation it selected as empty and that
\* an update has given a message since.
C28_Witness ==
    \E c \in Clients, r \in db_convs :
       /\ in_flight[c].st = "selected"
       /\ r.id \in in_flight[c].rows
       /\ r.messages = <<"m1">>

\* The step is an update_conversation of the service that reached the
\* database, for a conversation the table holds.
UpdateOfHeld ==
    /\ last'.op = "auth_update"
    /\ ~use_mock
    /\ \E c \in lb_convs : c.id = last'.id

\* C29: the conversation that update_conversation was called for is still in
\* the table after the enforcement of the limit that follows the update.
C29_UpdatedConversationKept ==
    [][UpdateOfHeld => \E c \in lb_convs' : c.id = last'.id]_vars

\* C29 witness: the UPDATE statement of an update_conversation failed, and the
\* enforcement that followed deleted the conversation, the oldest of a user
\* at the limit.
C29_Witness ==
    /\ last.op = "auth_update"
    /\ last.dbFailed
    /\ \E c \in last.deleted : c.id = last.id
    /\ \A c \in lb_convs : c.id # last.id
    /\ Cardinality(LbUserRows(lb_convs, last.uid)) = MaxConversations - 1

(***************************************************************************)
(* LakebasePostgreSQLService._execute_sql await by await.  _make_request   *)
(* returns a record for every answer and every exception, each request     *)
(* under timeout=30; asyncio.sleep(2) precedes each poll.                  *)
(***************************************************************************)
max_attempts == 30

\* What _make_request returns for the statement's creation: a 200 with a
\* statement_id, a 200 without one, or a failure record.
CreateAnswers == {"created", "no_statement_id", "request_failed"}

\* What it returns for a poll: a failure record, a 200 without a state, or a
\* 200 with the state of the statement.
PollAnswers == {"request_failed", "no_state", "PENDING", "RUNNING", "SUCCEEDED",
                "FAILED", "CANCELLED", "CLOSED"}

\* status in ["FAILED", "CANCELLED"], with one of the two left out
FailedStates_FailedOnly == {"FAILED"}
FailedStates == {"FAILED", "CANCELLED"}

NoWarehouseText == <<"No", " ", "SQL", " ", "warehouse", " ", "available">>
SqlTimedOutText == <<"Statement", " ", "execution", " ", "timed", " ", "out">>
StatementFailedText == <<"Statement", " ", "failed">>
HttpErrorText == <<"HTTP", " ", "500">>
KeyErrorText == <<"KeyError">>

\* The record _execute_sql returns, with the answer that led to it and the
\* polls made; status 0 while the call goes on.
SqlResult(status, answer, error, polls) ==
    Response("execute_sql", NoEmail, answer, status, error, polls, status = 500, NoData)

\* _execute_sql is called: up to the first await of the loop.
execute_sql_starts(c, answer) ==
    /\ in_flight[c].st = "idle"
    /\ UNCHANGED <<now, appVars, authVars, chatVars>>
    /\ IF ~warehouse_id
       THEN /\ in_flight' = [in_flight EXCEPT ![c] = [@ EXCEPT !.st = "done"]]
            /\ last' = SqlResult(500, "", NoWarehouseText, 0)
       ELSE IF answer = "created"
       THEN /\ in_flight' = [in_flight EXCEPT ![c] = [@ EXCEPT !.st = "polling"]]
            /\ last' = SqlResult(0, answer, <<>>, 0)
       ELSE /\ in_flight' = [in_flight EXCEPT ![c] = [@ EXCEPT !.st = "done"]]
            /\ last' = SqlResult(500, answer,
                                 IF answer = "request_failed" THEN HttpErrorText
                                 ELSE KeyErrorText, 0)

\* One turn of the loop: sleep, request the status, look at the state.
execute_sql_polls(c, answer) ==
    LET attempt == in_flight[c].attempt + 1
        result ==
            CASE answer = "request_failed" -> SqlResult(500, answer, HttpErrorText, attempt)
              [] answer = "no_state" -> SqlResult(500, answer, KeyErrorText, attempt)
              [] answer = "SUCCEEDED" -> SqlResult(200, answer, <<>>, attempt)
              [] answer \in FailedStates ->
                   SqlResult(500, answer, StatementFailedText, attempt)
              [] OTHER -> IF attempt = max_attempts
                          THEN SqlResult(500, answer, SqlTimedOutText, attempt)
                          ELSE SqlResult(0, answer, <<>>, attempt)
    IN /\ in_flight[c].st = "polling"
       /\ in_flight[c].attempt < max_attempts
       /\ last' = result
       /\ in_flight' = [in_flight EXCEPT ![c] =
                           [@ EXCEPT !.attempt = attempt,
                                     !.st = IF result.status = 0 THEN "polling"
                                            ELSE "done"]]
       /\ UNCHANGED <<now, appVars, authVars, chatVars>>

\* The result was returned; the next call may start.
execute_sql_returns(c) ==
    /\ in_flight[c].st = "done"
    /\ in_flight' = [in_flight EXCEPT ![c] = NotSent]
    /\ UNCHANGED <<now, appVars, authVars, chatVars, last>>

NextSql ==
    \/ \E found \in BOOLEAN : initialize(found)
    \/ \E answer \in CreateAnswers : execute_sql_starts("c1", answer)
    \/ \E answer \in PollAnswers : execute_sql_polls("c1", answer)
    \/ execute_sql_returns("c1")

SpecSql == Init /\ [][NextSql]_vars

\* Every sleep ends and every request is answered or times out, so each turn
\* of the loop is taken.
SpecSqlFair ==
    SpecSql /\ WF_vars(\E answer \in PollAnswers : execute_sql_polls("c1", answer))

\* The step belongs to a call of _execute_sql, and ends it.
SqlStep == last'.op = "execute_sql" /\ in_flight["c1"].st \in {"idle", "polling"}
              /\ in_flight'["c1"] # in_flight["c1"]
SqlEnds == SqlStep /\ in_flight'["c1"].st = "done"

\* C30: a call of _execute_sql ends with a result record, after at most
\* max_attempts polls: at once with a failure when no warehouse is selected or
\* the creation fails; at the poll that answers SUCCEEDED with success; at the
\* poll that answers FAILED or CANCELLED, or whose request fails, with a
\* failure; at poll max_attempts, when it is still not terminal, with the
\* failure 'timed out'; and at no other poll.
C30_ExecuteSqlTerminates ==
    /\ [][SqlStep =>
            /\ last'.count <= max_attempts
            /\ last'.status \in {0, 200, 500}
            /\ (in_flight["c1"].st = "idle" /\ (~warehouse_id \/ last'.id # "created"))
                  => (SqlEnds /\ last'.status = 500 /\ last'.count = 0)
            /\ (in_flight["c1"].st = "idle" /\ ~warehouse_id)
                  => last'.body = NoWarehouseText
            /\ last'.id = "SUCCEEDED" => (SqlEnds /\ last'.status = 200)
            /\ last'.status = 200 => last'.id = "SUCCEEDED"
            /\ last'.id \in {"FAILED", "CANCELLED", "request_failed"}
                  => (SqlEnds /\ last'.status = 500 /\ last'.body # SqlTimedOutText)
            /\ (in_flight["c1"].st = "polling"
                  /\ last'.id \in {"PENDING", "RUNNING", "CLOSED"})
                  => /\ SqlEnds <=> last'.count = max_attempts
                     /\ SqlEnds => (last'.status = 500 /\ last'.body = SqlTimedOutText)
            /\ SqlEnds <=> last'.status # 0]_vars
    /\ (in_flight["c1"].st = "polling") ~> (in_flight["c1"].st = "done")

\* C30 witness: poll max_attempts found the statement still running and the
\* call returned the failure 'timed out'.
C30_Witness ==
    /\ in_flight["c1"].st = "done"
    /\ in_flight["c1"].attempt = max_attempts
    /\ last.op = "execute_sql"
    /\ last.id = "RUNNING"
    /\ last.status = 500
    /\ last.body = SqlTimedOutText
    /\ last.count = max_attempts

====
